---- MODULE Spec2Model ----
(***************************************************************************)
(* A model of the LinguistFlow dictionary hub: the Bloom filter, the       *)
(* IndexedDB-backed multi-source store with its cascade lookup, the        *)
(* streaming batch parser, the import pipeline and the waterfall resolver. *)
(*                                                                         *)
(* Strings are sequences of UTF-16 code units (97 = 'a', 65 = 'A',         *)
(* 32 = ' ', 44 = ',', 34 = '"', 9 = TAB, 13 = CR, 10 = LF).               *)
(* 32-bit hash values are pairs <<hi, lo>> of 16-bit halves, because the   *)
(* checker's integers are 32-bit signed.                                   *)
(***************************************************************************)
EXTENDS Integers, Sequences, FiniteSets, TLC

VARIABLES
    filters,       \* Bloom: filter id -> [size, nbytes, bits]
    addedTo,       \* Bloom: filter id -> the words add() was called with
    bloomOps,      \* Bloom: number of add/merge calls made so far
    lastOp,        \* Bloom: the call made last, <<name, target, argument>>
    dict_meta,     \* store dict_meta: source id -> DictionarySource
    dict_entries,  \* store dict_entries: <<dictId, word>> -> entry
    legacy,        \* store dictionary (old schema): <<language, word>> -> row
    nextId,        \* the next id createDictionary issues
    selectedTab,   \* SettingsModal: the language tab shown
    dictionaries,  \* SettingsModal: the list loaded by loadDictionaries
    importing,     \* SettingsModal: ids of the sources an import is filling
    hubSteps,      \* hub operations still allowed
    creating,      \* createDictionary calls between their read and their put
    syncPc,        \* downloadAndImportDictionary: where the call stands
    fetches,       \* downloadAndImportDictionary: fetch calls issued
    totalLength,   \* downloadAndImportDictionary: parsed content-length
    receivedLength, \* downloadAndImportDictionary: bytes read so far
    reports,       \* onProgress invocations, <<kind, percent>> in order
    underlying,    \* message of the error that failed the call, or <<>>
    rejection,     \* message of the Error the call rejects with, or <<>>
    input,         \* parser: the bytes of the file or of the download
    mode,          \* parser: "file" or "stream"
    offset,        \* parser: bytes handed to the worker so far
    decoder,       \* parser: the state of the worker's streaming TextDecoder
    leftover,      \* parser: leftover / streamLeftover
    currentBatch,  \* parser: entries collected and not yet posted
    processedCount,\* parser: entries posted so far
    posted,        \* parser: the 'batch' messages posted, in order
    parserDone,    \* parser: the 'done' message was posted
    cutInCRLF,     \* parser: some chunk ended between a CR and its LF
    cutInLine,     \* parser: some chunk ended inside a line
    received,      \* import: 'batch' messages the main thread has handled
    writing,       \* import: batches whose transaction is open, in order
    committed,     \* import: batches whose transaction completed
    failed,        \* import: batches whose transaction aborted
    crashed,       \* import: the page was closed during the import
    appLanguage,   \* resolver: the language of the application
    vocabulary,    \* resolver: the vocabulary state, queued updates applied
    rendered,      \* resolver: the vocabulary the last render's handlers see
    calls,         \* resolver: the handleAddWord calls and where they stand
    completed,     \* import: what the import call reported, "none" before
    settlements,   \* hub calls in which a request failed, and how they ended
    globalBloomFilter, \* the module-level filter of bloomFilter.ts
    workerBloom,   \* import -> the filter of its parser worker
    parsedWords,   \* import -> the words its worker parsed so far
    importPhase    \* import -> [phase, dictId], phase "idle", "parsing", "merged", "ended"

bloomVars == <<filters, addedTo, bloomOps, lastOp>>

overlapVars == <<creating>>

syncVars == <<syncPc, fetches, totalLength, receivedLength, reports, underlying,
              rejection>>
hubVars == <<dict_meta, dict_entries, legacy, nextId, selectedTab,
             dictionaries, importing, hubSteps>>
parserVars == <<input, mode, offset, decoder, leftover, currentBatch,
                processedCount, posted, parserDone, cutInCRLF, cutInLine>>
importVars == <<received, writing, committed, failed, crashed, completed>>
failVars == <<settlements>>
knownVars == <<globalBloomFilter, workerBloom, parsedWords, importPhase>>
resolverVars == <<appLanguage, vocabulary, rendered, calls>>
vars == <<filters, addedTo, bloomOps, lastOp, creating, syncPc, fetches,
          totalLength, receivedLength, reports, underlying, rejection, dict_meta, dict_entries, legacy, nextId,
          selectedTab, dictionaries, importing, hubSteps, input, mode, offset,
          decoder, leftover, currentBatch, processedCount, posted, parserDone,
          cutInCRLF, cutInLine, received, writing, committed, failed, crashed,
          appLanguage, vocabulary, rendered, calls, completed, settlements,
          globalBloomFilter, workerBloom, parsedWords, importPhase>>

----------------------------------------------------------------------------
(* Strings                                                                 *)

\* A lower-casing that leaves every code unit as it is.
KeepCase(s) == s

\* String.prototype.toLowerCase on one code unit (ASCII and Latin-1
\* letters; Hangul and Han have no case).
LowerChar(c) ==
    IF (c >= 65 /\ c <= 90) \/ (c >= 192 /\ c <= 222 /\ c # 215)
    THEN c + 32
    ELSE c

ToLowerCase(s) == [i \in 1..Len(s) |-> LowerChar(s[i])]

\* The code units String.prototype.trim removes: WhiteSpace and
\* LineTerminator of ECMAScript.
IsSpace(c) ==
    \/ c \in {9, 10, 11, 12, 13, 32, 160, 5760, 8232, 8233, 8239, 8287, 12288,
              65279}
    \/ c \in 8192..8202

RECURSIVE TrimLeft(_)
TrimLeft(s) ==
    IF s # <<>> /\ IsSpace(Head(s)) THEN TrimLeft(Tail(s)) ELSE s

RECURSIVE TrimRight(_)
TrimRight(s) ==
    IF s # <<>> /\ IsSpace(s[Len(s)])
    THEN TrimRight(SubSeq(s, 1, Len(s) - 1))
    ELSE s

Trim(s) == TrimRight(TrimLeft(s))

----------------------------------------------------------------------------
(* Bloom filter (bloomFilter.ts)                                           *)

\* new BloomFilter(): the default size in bits.
BloomSize == 2000000

\* A second size, for filters that do not match the global one.
OtherBloomSize == 1000000

\* How many add/merge calls one behaviour makes.
MaxBloomOps == 3

FilterIds == {"A", "B", "C"}

\* The parser worker's filter (const bloom = new SimpleBloomFilter(2000000)).
WorkerFilter == "W"

AllFilterIds == FilterIds \cup {WorkerFilter}

NoOp == <<"none", "", "">>

BloomWords == { <<>>, <<97>>, <<65>>, <<99, 97, 116>>, <<100, 111, 103>> }

RECURSIVE BitXor(_, _)
BitXor(a, b) ==
    IF a = 0 THEN b
    ELSE IF b = 0 THEN a
    ELSE ((a + b) % 2) + (2 * BitXor(a \div 2, b \div 2))

\* Math.imul(h, 0x01000193) on h = hi * 2^16 + lo, kept to 32 bits:
\* 0x01000193 = 256 * 2^16 + 403.
Imul(h) ==
    LET lowProd == h[2] * 403
    IN  << ((h[1] * 403) + (h[2] * 256) + (lowProd \div 65536)) % 65536,
           lowProd % 65536 >>

\* hash(str): h = 0x811c9dc5; for each code unit: h ^= c; h = imul(h, prime).
RECURSIVE HashFrom(_, _)
HashFrom(h, s) ==
    IF s = <<>> THEN h
    ELSE HashFrom(Imul(<<h[1], BitXor(h[2], Head(s))>>), Tail(s))

hash(s) == HashFrom(<<33052, 40389>>, s)

\* (h >>> 0) % size for h = hi * 2^16 + lo and size < 2^23.
HashMod(h, size) ==
    ((((((h[1] % size) * 256) % size) * 256) % size) + h[2]) % size

\* idx = (h + i * 0x5bd1e995) % this.size, i in 0..k-1 with k = 3.
BitIndex(s, i, size) ==
    (HashMod(hash(s), size) + ((i * (1540483477 % size)) % size)) % size

\* The k = 3 probe positions of a string.
Probes(s, size) == { BitIndex(s, i, size) : i \in 0..2 }

\* new BloomFilter(size): an all-zero Uint8Array of ceil(size / 8) bytes.
\* bits is the set of bit numbers (8 * byteIdx + bitIdx) that are 1.
NewFilter(size) ==
    [size |-> size, nbytes |-> (size + 7) \div 8, bits |-> {}]

\* new BloomFilter(size, buffer): the bytes of another filter's buffer.
FilterFromBuffer(size, src) ==
    [size |-> size, nbytes |-> src.nbytes, bits |-> src.bits]

\* add(str): a typed array ignores a write past its length.
BloomAdd(f, s) ==
    [f EXCEPT !.bits = @ \cup { p \in Probes(s, f.size) : p \div 8 < f.nbytes }]

\* test(str): every probed bit is 1 (a read past the length gives 0).
BloomTest(f, s) ==
    \A p \in Probes(s, f.size) : p \in f.bits

\* SimpleBloomFilter.hash(str) of the worker: the same FNV-1a loop, written
\* a second time in the worker's source text.
SimpleHash(s) == HashFrom(<<33052, 40389>>, s)

\* The worker's index with the multiples of the step taken in the wrong
\* order of magnitude (i * 0x5bd1e995 replaced by i * 0x5bd1).
SimpleBitIndexShortStep(s, i, size) ==
    (HashMod(SimpleHash(s), size) + ((i * (23505 % size)) % size)) % size

\* SimpleBloomFilter.add: idx = (h + i * 0x5bd1e995) % this.size.
SimpleBitIndex(s, i, size) ==
    (HashMod(SimpleHash(s), size) + ((i * (1540483477 % size)) % size)) % size

SimpleProbes(s, size) == { SimpleBitIndex(s, i, size) : i \in 0..2 }

\* new SimpleBloomFilter(size).
NewSimpleFilter(size) ==
    [size |-> size, nbytes |-> (size + 7) \div 8, bits |-> {}]

\* SimpleBloomFilter.add(str).
SimpleAdd(f, s) ==
    [f EXCEPT !.bits =
        @ \cup { p \in SimpleProbes(s, f.size) : p \div 8 < f.nbytes }]

\* A merge without the size guard.
MergeUnguarded(f, g) ==
    [f EXCEPT !.bits = @ \cup { b \in g.bits : b \div 8 < f.nbytes }]

\* A merge that assigns the other filter's bytes instead of OR-ing them.
MergeAssign(f, g) ==
    IF g.size # f.size THEN f
    ELSE [f EXCEPT !.bits = { b \in g.bits : b \div 8 < f.nbytes }]

\* merge(other): no-op on a size mismatch, else this[i] |= other[i] for
\* every byte i of this.
BloomMerge(f, g) ==
    IF g.size # f.size THEN f
    ELSE [f EXCEPT !.bits = @ \cup { b \in g.bits : b \div 8 < f.nbytes }]

InitBloom ==
    /\ filters \in { [id \in AllFilterIds |->
                        IF id = WorkerFilter THEN NewSimpleFilter(BloomSize)
                        ELSE NewFilter(IF id = "C" THEN sz ELSE BloomSize)] :
                     sz \in {BloomSize, OtherBloomSize} }
    /\ addedTo = [id \in AllFilterIds |-> {}]
    /\ bloomOps = 0
    /\ lastOp = NoOp

Add(id, w) ==
    /\ bloomOps < MaxBloomOps
    /\ filters' = [filters EXCEPT ![id] = BloomAdd(@, w)]
    /\ addedTo' = [addedTo EXCEPT ![id] = @ \cup {w}]
    /\ bloomOps' = bloomOps + 1
    /\ lastOp' = <<"add", id, w>>

Merge(id, other) ==
    /\ bloomOps < MaxBloomOps
    /\ filters' = [filters EXCEPT ![id] = BloomMerge(@, filters[other])]
    /\ bloomOps' = bloomOps + 1
    /\ lastOp' = <<"merge", id, other>>
    /\ UNCHANGED addedTo

\* processLines in the worker: bloom.add(word).
WorkerAdd(w) ==
    /\ bloomOps < MaxBloomOps
    /\ filters' = [filters EXCEPT ![WorkerFilter] = SimpleAdd(@, w)]
    /\ addedTo' = [addedTo EXCEPT ![WorkerFilter] = @ \cup {w}]
    /\ bloomOps' = bloomOps + 1
    /\ lastOp' = <<"workerAdd", WorkerFilter, w>>

\* The worker's buffer as the main thread rebuilds it:
\* new BloomFilter(2000000, bloomBuffer).
Rebuilt == FilterFromBuffer(BloomSize, filters[WorkerFilter])

\* On 'done': globalBloomFilter.merge(new BloomFilter(2000000, bloomBuffer)).
MergeRebuilt(id) ==
    /\ bloomOps < MaxBloomOps
    /\ filters' = [filters EXCEPT ![id] = BloomMerge(@, Rebuilt)]
    /\ bloomOps' = bloomOps + 1
    /\ lastOp' = <<"mergeRebuilt", id, WorkerFilter>>
    /\ UNCHANGED addedTo

AddStep ==
    (\E id \in FilterIds, w \in BloomWords : Add(id, w)) /\ UNCHANGED <<hubVars, parserVars, importVars, resolverVars, overlapVars, syncVars, failVars, knownVars>>

MergeStep ==
    (\E id \in FilterIds : \E other \in FilterIds \ {id} : Merge(id, other))
    /\ UNCHANGED <<hubVars, parserVars, importVars, resolverVars, overlapVars, syncVars, failVars, knownVars>>

WorkerAddStep ==
    (\E w \in BloomWords : WorkerAdd(w))
    /\ UNCHANGED <<hubVars, parserVars, importVars, resolverVars, overlapVars, syncVars, failVars, knownVars>>

MergeRebuiltStep ==
    MergeRebuilt("A")
    /\ UNCHANGED <<hubVars, parserVars, importVars, resolverVars, overlapVars, syncVars, failVars, knownVars>>

NextBloom == AddStep \/ MergeStep \/ WorkerAddStep \/ MergeRebuiltStep


----------------------------------------------------------------------------
(* Persistent store and Dictionary Hub (db.ts)                             *)

\* ['EN', 'FR', 'KR']: the languages init() creates a USER source for.
Languages == {"EN", "FR", "KR"}

\* Source ids are numbers ordered as the id strings are: an id
\* IMPORTED_<time>_<random> issued by createDictionary (1, 2, ...) sorts
\* before USER_EN < USER_FR < USER_KR (101, 102, 103).
UserId(lang) == CASE lang = "EN" -> 101 [] lang = "FR" -> 102 [] lang = "KR" -> 103

\* metadata.hanja of an entry that has none.
NoHanja == <<-1>>

\* Lexicographic order of strings by code unit (IndexedDB key order).
RECURSIVE StrLess(_, _)
StrLess(a, b) ==
    IF b = <<>> THEN FALSE
    ELSE IF a = <<>> THEN TRUE
    ELSE IF Head(a) # Head(b) THEN Head(a) < Head(b)
    ELSE StrLess(Tail(a), Tail(b))

\* objectStore.put(value) under key.
Put(store, key, value) ==
    [k \in DOMAIN store \cup {key} |-> IF k = key THEN value ELSE store[k]]

\* objectStore.delete of a set of keys.
DeleteKeys(store, keys) == [k \in DOMAIN store \ keys |-> store[k]]

\* Primary-key order of dict_entries: [dictId, word].
EntryKeyLess(a, b) == a[1] < b[1] \/ (a[1] = b[1] /\ StrLess(a[2], b[2]))

\* A set of source ids as a sequence in key order.
RECURSIVE SortIds(_)
SortIds(S) ==
    IF S = {} THEN <<>>
    ELSE LET m == CHOOSE x \in S : \A y \in S \ {x} : x < y
         IN  <<m>> \o SortIds(S \ {m})

\* A set of dict_entries keys as a sequence in key order.
RECURSIVE SortKeys(_)
SortKeys(S) ==
    IF S = {} THEN <<>>
    ELSE LET m == CHOOSE x \in S : \A y \in S \ {x} : EntryKeyLess(x, y)
         IN  <<m>> \o SortKeys(S \ {m})

\* Array.prototype.sort((a, b) => a.key - b.key) on pairs <<key, value>>:
\* stable, each element placed after the last one whose key is not greater.
RECURSIVE InsertStable(_, _)
InsertStable(sorted, x) ==
    IF sorted = <<>> THEN <<x>>
    ELSE IF sorted[Len(sorted)][1] <= x[1] THEN Append(sorted, x)
    ELSE Append(InsertStable(SubSeq(sorted, 1, Len(sorted) - 1), x),
                sorted[Len(sorted)])

RECURSIVE StableSortFrom(_, _)
StableSortFrom(done, rest) ==
    IF rest = <<>> THEN done
    ELSE StableSortFrom(InsertStable(done, Head(rest)), Tail(rest))

\* The values of a sequence of pairs <<key, value>>, sorted by key.
StableSort(pairs) ==
    LET sorted == StableSortFrom(<<>>, pairs)
    IN  [i \in 1..Len(sorted) |-> sorted[i][2]]

\* getDictionaries(language): index('language').getAll(language) returns
\* the records in primary-key (id) order; then sort by priority.
GetDictionariesIn(meta, language) ==
    LET ids == { id \in DOMAIN meta : meta[id].language = language }
        byId == SortIds(ids)
    IN  StableSort([i \in 1..Len(byId) |->
                       <<meta[byId[i]].priority, meta[byId[i]]>>])

GetDictionaries(language) == GetDictionariesIn(dict_meta, language)

\* init() / onupgradeneeded: one USER source per language, priority 0.
InitialMeta ==
    [id \in { UserId(l) : l \in Languages } |->
        LET lang == CHOOSE l \in Languages : UserId(l) = id
        IN  [id |-> id, language |-> lang, priority |-> 0, enabled |-> TRUE,
             count |-> 0, type |-> "USER"]]

\* Math.max(...existing.map(d => d.priority)).
MaxPriority(dicts) ==
    CHOOSE m \in { dicts[i].priority : i \in 1..Len(dicts) } :
        \A i \in 1..Len(dicts) : dicts[i].priority <= m

\* createDictionary(name, language, 'IMPORTED'): the record it puts.
NewDictionaryIn(meta, id, language) ==
    LET existing == GetDictionariesIn(meta, language)
        maxPrio == IF Len(existing) > 0 THEN MaxPriority(existing) ELSE 0
    IN  [id |-> id, language |-> language, priority |-> maxPrio + 1,
         enabled |-> TRUE, count |-> 0, type |-> "IMPORTED"]

NewDictionary(id, language) == NewDictionaryIn(dict_meta, id, language)

\* importBatchToDict, the record stored for one entry that has a word.
StoredEntry(entry, dictId) ==
    [dictId |-> dictId, word |-> Trim(ToLowerCase(entry.word)),
     original |-> entry.word, translation |-> entry.translation,
     hanja |-> entry.hanja]

\* entries.forEach(entry => { if (entry.word) store.put(...) }): the puts
\* are made in order, a later one replacing an earlier one of the same key.
RECURSIVE PutEntries(_, _, _)
PutEntries(store, entries, dictId) ==
    IF entries = <<>> THEN store
    ELSE LET e == Head(entries)
             next == IF e.word # <<>>
                     THEN Put(store, <<dictId, Trim(ToLowerCase(e.word))>>,
                              StoredEntry(e, dictId))
                     ELSE store
         IN  PutEntries(next, Tail(entries), dictId)

\* getMeta.onsuccess: if the source exists, meta.count += entries.length.
CountedMeta(meta, entries, dictId) ==
    IF dictId \in DOMAIN meta
    THEN [meta EXCEPT ![dictId].count = @ + Len(entries)]
    ELSE meta

\* The keys of dict_entries under index('dictId') = dictId.
KeysOfDict(entries, dictId) == { k \in DOMAIN entries : k[1] = dictId }

\* A legacy store that is never read.
NoLegacy(language, word) == <<>>

\* lookupLegacy(language, word).
LookupLegacy(language, word) ==
    IF <<language, word>> \in DOMAIN legacy
    THEN LET row == legacy[<<language, word>>]
         IN  << [dictId |-> 0,
                 word |-> IF row.original # <<>> THEN row.original ELSE row.word,
                 translation |-> row.translation,
                 original |-> <<>>, hanja |-> NoHanja] >>
    ELSE <<>>

\* results.flat() followed by the Map that keeps the first match of each
\* dictId + word.
RECURSIVE Dedupe(_, _)
Dedupe(seen, rest) ==
    IF rest = <<>> THEN seen
    ELSE IF \E i \in 1..Len(seen) : seen[i] = Head(rest)
         THEN Dedupe(seen, Tail(rest))
         ELSE Dedupe(Append(seen, Head(rest)), Tail(rest))

\* A cascade that returns its results in match order.
Unsorted(results) == results

\* finalResults.sort((a, b) => a.source.priority - b.source.priority).
SortByPriority(results) ==
    StableSort([i \in 1..Len(results) |->
                   <<results[i].source.priority, results[i]>>])

\* A filter that keeps every source, enabled or not.
AllDicts(dicts) == dicts

\* The sources the cascade draws from: dicts.filter(d => d.enabled).
ActiveDicts(dicts) == SelectSeq(dicts, LAMBDA d : d.enabled)

\* lookupCascade(language, word) on the current store.
lookupCascade(language, word) ==
    LET cleanWord == Trim(ToLowerCase(word))
        activeDicts == ActiveDicts(GetDictionaries(language))
        legacyResult == LookupLegacy(language, cleanWord)
        wordKeys == SortKeys({ k \in DOMAIN dict_entries : k[2] = cleanWord })
        hanjaKeys ==
            IF language = "KR"
            THEN SortKeys({ k \in DOMAIN dict_entries :
                              dict_entries[k].hanja = cleanWord })
            ELSE <<>>
        matches == Dedupe(<<>>, wordKeys \o hanjaKeys)
        activeIds == { activeDicts[i].id : i \in 1..Len(activeDicts) }
        SourceOf(id) ==
            activeDicts[CHOOSE i \in 1..Len(activeDicts) : activeDicts[i].id = id]
        hubKeys == SelectSeq(matches, LAMBDA k : k[1] \in activeIds)
        hubResults == [i \in 1..Len(hubKeys) |->
                         [entry |-> dict_entries[hubKeys[i]],
                          source |-> SourceOf(hubKeys[i][1])]]
        userDicts == SelectSeq(activeDicts, LAMBDA d : d.type = "USER")
        finalResults ==
            IF /\ legacyResult # <<>>
               /\ userDicts # <<>>
               /\ ~ \E i \in 1..Len(hubResults) :
                        hubResults[i].source.id = userDicts[1].id
            THEN Append(hubResults,
                        [entry |-> [legacyResult[1] EXCEPT
                                       !.dictId = userDicts[1].id],
                         source |-> userDicts[1]])
            ELSE hubResults
    IN  IF activeDicts = <<>> THEN <<>> ELSE SortByPriority(finalResults)

----------------------------------------------------------------------------
(* Hub operations: the DictionaryDB methods as SettingsModal.tsx and       *)
(* App.tsx call them                                                       *)

\* The language tabs the user opens in the modelled behaviours.
TabLanguages == {"EN", "KR"}

\* Translations 'x' and 'y', and a Hanja annotation.
T1 == <<120>>
T2 == <<121>>
H1 == <<29483>>

\* The batches handed to importBatchToDict: one entry, its case variant
\* with another translation, a batch of two of which one lacks a word, and
\* an entry with a Hanja.
Batches ==
    { << [word |-> <<97>>, translation |-> T1, hanja |-> NoHanja] >>,
      << [word |-> <<65>>, translation |-> T2, hanja |-> NoHanja] >>,
      << [word |-> <<97>>, translation |-> T1, hanja |-> NoHanja],
         [word |-> <<>>, translation |-> T2, hanja |-> NoHanja] >>,
      << [word |-> <<98>>, translation |-> T1, hanja |-> H1] >> }

\* Rows an earlier schema version may have left in the legacy store.
LegacyInits ==
    { <<>>,
      [k \in { <<"EN", <<97>>>>, <<"KR", <<97>>>> } |->
          [word |-> <<97>>, original |-> <<65>>, translation |-> T2]] }

\* How many hub operations one behaviour makes.
MaxHubSteps == 6
MaxReorderSteps == 7

\* One more hub operation is made.
HubStep == hubSteps > 0 /\ hubSteps' = hubSteps - 1

InitStore ==
    /\ dict_meta = InitialMeta
    /\ dict_entries = <<>>
    /\ legacy \in LegacyInits
    /\ nextId = 1
    /\ selectedTab = "EN"
    /\ dictionaries = GetDictionariesIn(InitialMeta, "EN")
    /\ importing = {}
    /\ creating = {}

InitHub ==
    /\ InitStore
    /\ hubSteps = MaxHubSteps

\* How many hub operations a behaviour makes whose states are queried with
\* every spelling variant of a word.
MaxLookupSteps == 4

\* The hub, with or without legacy rows, before a short run of operations.
InitLookup ==
    /\ InitStore
    /\ hubSteps = MaxLookupSteps

\* The dialog on a store without legacy rows.
InitReorder ==
    /\ InitStore
    /\ legacy = <<>>
    /\ hubSteps = MaxReorderSteps

\* setSelectedTab(lang), whose effect runs loadDictionaries.
SelectTab(lang) ==
    /\ lang # selectedTab
    /\ HubStep
    /\ selectedTab' = lang
    /\ dictionaries' = GetDictionaries(lang)
    /\ UNCHANGED <<dict_meta, dict_entries, legacy, nextId, importing>>

\* confirmImport / downloadAndImportDictionary up to createDictionary: the
\* loading flag admits one import at a time; the list is not reloaded.
CreateDictionary ==
    /\ importing = {}
    /\ dict_meta' = Put(dict_meta, nextId, NewDictionary(nextId, selectedTab))
    /\ nextId' = nextId + 1
    /\ importing' = {nextId}
    /\ HubStep
    /\ UNCHANGED <<dict_entries, legacy, selectedTab, dictionaries>>

\* importBatchToDict(entries, dictId): one transaction over both stores.
ImportBatchToDict(entries, dictId) ==
    /\ dict_entries' = PutEntries(dict_entries, entries, dictId)
    /\ dict_meta' = CountedMeta(dict_meta, entries, dictId)
    /\ HubStep
    /\ UNCHANGED <<legacy, nextId, selectedTab, dictionaries, importing>>

\* The onBatch callback of a running import.
ImportBatch ==
    \E dictId \in importing : \E entries \in Batches :
        ImportBatchToDict(entries, dictId)

\* The import ends well: loadDictionaries() runs.
FinishImport ==
    /\ importing # {}
    /\ HubStep
    /\ importing' = {}
    /\ dictionaries' = GetDictionaries(selectedTab)
    /\ UNCHANGED <<dict_meta, dict_entries, legacy, nextId, selectedTab>>

\* The import fails (catch branch): the list is not reloaded.
FailImport ==
    /\ importing # {}
    /\ HubStep
    /\ importing' = {}
    /\ UNCHANGED <<dict_meta, dict_entries, legacy, nextId, selectedTab,
                   dictionaries>>

\* toggleDictionary(dict): put the listed record with enabled flipped, then
\* loadDictionaries().
ToggleDictionary(i) ==
    LET updated == [dictionaries[i] EXCEPT !.enabled = ~ @]
    IN  /\ HubStep
        /\ dict_meta' = Put(dict_meta, updated.id, updated)
        /\ dictionaries' = GetDictionariesIn(dict_meta', selectedTab)
        /\ UNCHANGED <<dict_entries, legacy, nextId, selectedTab, importing>>

\* db.deleteDictionary(dictId): metadata and entries in one transaction.
DeletedMeta(meta, dictId) == DeleteKeys(meta, {dictId})

\* A delete that leaves the entries of the source in the store.
KeptEntries(entries, dictId) == entries

DeletedEntries(entries, dictId) == DeleteKeys(entries, KeysOfDict(entries, dictId))

\* A delete button that is enabled for the USER source as well.
DeleteAnyDictionary(i) ==
    /\ HubStep
    /\ dict_meta' = DeletedMeta(dict_meta, dictionaries[i].id)
    /\ dict_entries' = DeletedEntries(dict_entries, dictionaries[i].id)
    /\ dictionaries' = GetDictionariesIn(dict_meta', selectedTab)
    /\ UNCHANGED <<legacy, nextId, selectedTab, importing>>

\* deleteDictionary(dict) of the modal (the button is disabled for the USER
\* source), then loadDictionaries().
DeleteDictionary(i) ==
    /\ dictionaries[i].type # "USER"
    /\ HubStep
    /\ dict_meta' = DeletedMeta(dict_meta, dictionaries[i].id)
    /\ dict_entries' = DeletedEntries(dict_entries, dictionaries[i].id)
    /\ dictionaries' = GetDictionariesIn(dict_meta', selectedTab)
    /\ UNCHANGED <<legacy, nextId, selectedTab, importing>>

\* db.clearDictionaryEntries(dictId): the metadata with count reset.
ClearedMeta(meta, dictId) ==
    IF dictId \in DOMAIN meta THEN [meta EXCEPT ![dictId].count = 0] ELSE meta

\* clearDictionary(dict) of the modal (offered for non-USER sources), then
\* loadDictionaries().
ClearDictionary(i) ==
    /\ dictionaries[i].type # "USER"
    /\ HubStep
    /\ dict_entries' = DeletedEntries(dict_entries, dictionaries[i].id)
    /\ dict_meta' = ClearedMeta(dict_meta, dictionaries[i].id)
    /\ dictionaries' = GetDictionariesIn(dict_meta', selectedTab)
    /\ UNCHANGED <<legacy, nextId, selectedTab, importing>>

\* updateDictionaryMeta(dict) for every record of a list, in order.
RECURSIVE PutAll(_, _)
PutAll(meta, updates) ==
    IF updates = <<>> THEN meta
    ELSE PutAll(Put(meta, Head(updates).id, Head(updates)), Tail(updates))

\* movePriority: newOrder with index and targetIndex swapped, then
\* priority = position (from 0) for every record of the list.
Renumbered(list, index, targetIndex) ==
    LET newOrder == [j \in 1..Len(list) |->
                        IF j = index THEN list[targetIndex]
                        ELSE IF j = targetIndex THEN list[index]
                        ELSE list[j]]
    IN  [j \in 1..Len(list) |-> [newOrder[j] EXCEPT !.priority = j - 1]]

\* movePriority(index, direction) on the listed records (index from 1
\* here); the first moved up or the last moved down returns at once.
MovePriority(index, direction) ==
    IF \/ direction = "up" /\ index = 1
       \/ direction = "down" /\ index = Len(dictionaries)
    THEN UNCHANGED vars
    ELSE LET targetIndex == IF direction = "up" THEN index - 1 ELSE index + 1
             updates == Renumbered(dictionaries, index, targetIndex)
         IN  /\ HubStep
             /\ dict_meta' = PutAll(dict_meta, updates)
             /\ dictionaries' = updates
             /\ UNCHANGED <<dict_entries, legacy, nextId, selectedTab,
                            importing>>

\* disableAll: every listed record put back with enabled = false.
DisableAll ==
    LET updates == [j \in 1..Len(dictionaries) |->
                       [dictionaries[j] EXCEPT !.enabled = FALSE]]
    IN  /\ HubStep
        /\ dict_meta' = PutAll(dict_meta, updates)
        /\ dictionaries' = updates
        /\ UNCHANGED <<dict_entries, legacy, nextId, selectedTab, importing>>

\* A saveDefinition that writes nothing.
SaveNothing(language, word, translation, hanja) ==
    UNCHANGED <<dict_meta, dict_entries, legacy>>

\* saveDefinition(language, word, translation, metadata): into the USER
\* source of the language, or the legacy store when there is none.
SaveDefinitionWrites(language, word, translation, hanja) ==
    LET dicts == GetDictionaries(language)
        userDicts == SelectSeq(dicts, LAMBDA d : d.type = "USER")
        entry == [word |-> word, translation |-> translation, hanja |-> hanja]
    IN  IF userDicts # <<>>
        THEN /\ dict_entries' =
                   PutEntries(dict_entries, <<entry>>, userDicts[1].id)
             /\ dict_meta' = CountedMeta(dict_meta, <<entry>>, userDicts[1].id)
             /\ UNCHANGED legacy
        ELSE /\ legacy' = Put(legacy, <<language, Trim(ToLowerCase(word))>>,
                              [word |-> Trim(ToLowerCase(word)),
                               original |-> word, translation |-> translation])
             /\ UNCHANGED <<dict_meta, dict_entries>>

SaveDefinition(language, word, translation, hanja) ==
    /\ HubStep
    /\ SaveDefinitionWrites(language, word, translation, hanja)
    /\ UNCHANGED <<nextId, selectedTab, dictionaries, importing>>

SelectTabStep ==
    (\E lang \in TabLanguages : SelectTab(lang)) /\ UNCHANGED <<bloomVars, parserVars, importVars, resolverVars, overlapVars, syncVars, failVars, knownVars>>

CreateDictionaryStep == CreateDictionary /\ UNCHANGED <<bloomVars, parserVars, importVars, resolverVars, overlapVars, syncVars, failVars, knownVars>>

ImportBatchStep == ImportBatch /\ UNCHANGED <<bloomVars, parserVars, importVars, resolverVars, overlapVars, syncVars, failVars, knownVars>>

FinishImportStep == FinishImport /\ UNCHANGED <<bloomVars, parserVars, importVars, resolverVars, overlapVars, syncVars, failVars, knownVars>>

FailImportStep == FailImport /\ UNCHANGED <<bloomVars, parserVars, importVars, resolverVars, overlapVars, syncVars, failVars, knownVars>>

ToggleDictionaryStep ==
    (\E i \in 1..Len(dictionaries) : ToggleDictionary(i)) /\ UNCHANGED <<bloomVars, parserVars, importVars, resolverVars, overlapVars, syncVars, failVars, knownVars>>

DeleteDictionaryStep ==
    (\E i \in 1..Len(dictionaries) : DeleteDictionary(i)) /\ UNCHANGED <<bloomVars, parserVars, importVars, resolverVars, overlapVars, syncVars, failVars, knownVars>>

ClearDictionaryStep ==
    (\E i \in 1..Len(dictionaries) : ClearDictionary(i)) /\ UNCHANGED <<bloomVars, parserVars, importVars, resolverVars, overlapVars, syncVars, failVars, knownVars>>

MovePriorityStep ==
    \E i \in 1..Len(dictionaries) : \E direction \in {"up", "down"} :
        MovePriority(i, direction) /\ UNCHANGED <<bloomVars, parserVars, importVars, resolverVars, overlapVars, syncVars, failVars, knownVars>>

DisableAllStep == DisableAll /\ UNCHANGED <<bloomVars, parserVars, importVars, resolverVars, overlapVars, syncVars, failVars, knownVars>>

SaveDefinitionStep ==
    (\E language \in TabLanguages : \E word \in {<<65>>} :
        SaveDefinition(language, word, T1, NoHanja)) /\ UNCHANGED <<bloomVars, parserVars, importVars, resolverVars, overlapVars, syncVars, failVars, knownVars>>

NextHub ==
    \/ SelectTabStep
    \/ CreateDictionaryStep
    \/ ImportBatchStep
    \/ FinishImportStep
    \/ FailImportStep
    \/ ToggleDictionaryStep
    \/ DeleteDictionaryStep
    \/ ClearDictionaryStep
    \/ MovePriorityStep
    \/ DisableAllStep
    \/ SaveDefinitionStep

\* How many createDictionary calls are between their read and their put at
\* one time, and how many steps a behaviour with such calls makes.
MaxCreating == 2

MaxOverlapSteps == 6

\* The dialog on a store without legacy rows, createDictionary taken as the
\* two transactions it makes.
InitOverlap ==
    /\ InitStore
    /\ legacy = <<>>
    /\ hubSteps = MaxOverlapSteps

\* createDictionary up to `await this.getDictionaries(language)`: the id is
\* drawn and the record is built from the sources this read returns.
BeginCreate ==
    /\ Cardinality(creating) < MaxCreating
    /\ HubStep
    /\ creating' = creating \cup {NewDictionary(nextId, selectedTab)}
    /\ nextId' = nextId + 1
    /\ UNCHANGED <<dict_meta, dict_entries, legacy, selectedTab, dictionaries,
                   importing>>

\* createDictionary from `await this.updateDictionaryMeta(newDict)` on: the
\* record is put and the import of the caller begins.
EndCreate(newDict) ==
    /\ HubStep
    /\ dict_meta' = Put(dict_meta, newDict.id, newDict)
    /\ creating' = creating \ {newDict}
    /\ importing' = importing \cup {newDict.id}
    /\ UNCHANGED <<dict_entries, legacy, nextId, selectedTab, dictionaries>>

BeginCreateStep ==
    BeginCreate /\ UNCHANGED <<bloomVars, parserVars, importVars, resolverVars, syncVars, failVars, knownVars>>

EndCreateStep ==
    (\E newDict \in creating : EndCreate(newDict))
    /\ UNCHANGED <<bloomVars, parserVars, importVars, resolverVars, syncVars, failVars, knownVars>>

\* The dialog with imports started from it, from one mount of the dialog and
\* from the next.
NextOverlap ==
    \/ BeginCreateStep
    \/ EndCreateStep
    \/ FinishImportStep
    \/ SelectTabStep
    \/ DeleteDictionaryStep
    \/ MovePriorityStep

\* The operations of the dialog on the list of sources.
NextReorder ==
    \/ SelectTabStep
    \/ CreateDictionaryStep
    \/ FinishImportStep
    \/ FailImportStep
    \/ ToggleDictionaryStep
    \/ DeleteDictionaryStep
    \/ MovePriorityStep
    \/ DisableAllStep

----------------------------------------------------------------------------
(* Dictionary file parser (the worker of fileParser.ts)                    *)

\* decoder = new TextDecoder('utf-8', { fatal: false, ignoreBOM: true }):
\* the state between two decode(chunk, { stream: true }) calls.
DecoderReset ==
    [cp |-> 0, needed |-> 0, seen |-> 0, lower |-> 128, upper |-> 191]

\* The UTF-16 code units of a code point.
Units(cp) ==
    IF cp < 65536 THEN <<cp>>
    ELSE << 55296 + ((cp - 65536) \div 1024), 56320 + ((cp - 65536) % 1024) >>

\* decode(bytes, { stream: true }) from state st: <<state after, text>>.
\* A malformed sequence gives U+FFFD and its offending byte is read again;
\* an unfinished sequence at the end of the chunk stays in the state.
RECURSIVE DecodeFrom(_, _, _)
DecodeFrom(st, bytes, out) ==
    IF bytes = <<>> THEN <<st, out>>
    ELSE LET b == Head(bytes)
         IN  IF st.needed = 0
             THEN IF b <= 127
                  THEN DecodeFrom(st, Tail(bytes), Append(out, b))
                  ELSE IF b \in 194..223
                  THEN DecodeFrom([DecoderReset EXCEPT !.needed = 1,
                                                       !.cp = b - 192],
                                  Tail(bytes), out)
                  ELSE IF b \in 224..239
                  THEN DecodeFrom([DecoderReset EXCEPT
                                      !.needed = 2, !.cp = b - 224,
                                      !.lower = IF b = 224 THEN 160 ELSE 128,
                                      !.upper = IF b = 237 THEN 159 ELSE 191],
                                  Tail(bytes), out)
                  ELSE IF b \in 240..244
                  THEN DecodeFrom([DecoderReset EXCEPT
                                      !.needed = 3, !.cp = b - 240,
                                      !.lower = IF b = 240 THEN 144 ELSE 128,
                                      !.upper = IF b = 244 THEN 143 ELSE 191],
                                  Tail(bytes), out)
                  ELSE DecodeFrom(st, Tail(bytes), Append(out, 65533))
             ELSE IF b < st.lower \/ b > st.upper
                  THEN DecodeFrom(DecoderReset, bytes, Append(out, 65533))
                  ELSE LET cp == (st.cp * 64) + (b - 128)
                       IN  IF st.seen + 1 = st.needed
                           THEN DecodeFrom(DecoderReset, Tail(bytes),
                                           out \o Units(cp))
                           ELSE DecodeFrom([st EXCEPT !.cp = cp,
                                                      !.seen = @ + 1,
                                                      !.lower = 128,
                                                      !.upper = 191],
                                           Tail(bytes), out)

\* String.prototype.split at the positions seps of s.
RECURSIVE SplitAtFrom(_, _, _, _, _)
SplitAtFrom(s, seps, i, cur, out) ==
    IF i > Len(s) THEN Append(out, cur)
    ELSE IF i \in seps
         THEN SplitAtFrom(s, seps, i + 1, <<>>, Append(out, cur))
         ELSE SplitAtFrom(s, seps, i + 1, Append(cur, s[i]), out)

SplitAt(s, seps) == SplitAtFrom(s, seps, 1, <<>>, <<>>)

\* combined.split(/\r?\n/): every LF is a separator and takes the CR just
\* before it, if any; the last piece is what follows the last LF.
SplitLines(text) ==
    LET pieces == SplitAt(text, { i \in 1..Len(text) : text[i] = 10 })
    IN  [k \in 1..Len(pieces) |->
            IF /\ k < Len(pieces)
               /\ pieces[k] # <<>>
               /\ pieces[k][Len(pieces[k])] = 13
            THEN SubSeq(pieces[k], 1, Len(pieces[k]) - 1)
            ELSE pieces[k]]

\* The commas /,(?=(?:(?:[^"]*"){2})*[^"]*$)/ matches: those followed by
\* an even number of double quotes.
UnquotedCommas(line) ==
    { i \in 1..Len(line) :
        /\ line[i] = 44
        /\ Cardinality({ j \in (i + 1)..Len(line) : line[j] = 34 }) % 2 = 0 }

Includes(line, c) == \E i \in 1..Len(line) : line[i] = c

\* The columns of a line: split on tabs, else on unquoted commas, else on
\* the full-width comma.
Parts(line) ==
    IF Includes(line, 9)
    THEN SplitAt(line, { i \in 1..Len(line) : line[i] = 9 })
    ELSE IF Includes(line, 44)
    THEN SplitAt(line, UnquotedCommas(line))
    ELSE SplitAt(line, { i \in 1..Len(line) : line[i] = 65292 })

\* parts.slice(from - 1).join(',').
RECURSIVE JoinComma(_, _)
JoinComma(parts, from) ==
    IF from > Len(parts) THEN <<>>
    ELSE IF from = Len(parts) THEN parts[from]
    ELSE parts[from] \o <<44>> \o JoinComma(parts, from + 1)

\* s.replace(/^"|"$/g, ''): one leading and one trailing double quote go.
StripQuotes(s) ==
    LET a == IF s # <<>> /\ Head(s) = 34 THEN Tail(s) ELSE s
    IN  IF a # <<>> /\ a[Len(a)] = 34 THEN SubSeq(a, 1, Len(a) - 1) ELSE a

\* extra.match(/[一-龥]/).
HasHanja(s) == \E i \in 1..Len(s) : s[i] >= 19968 /\ s[i] <= 40869

\* The body of the loop of processLines for one line: the entry it adds,
\* if any.
ParseLine(line) ==
    IF Trim(line) = <<>> THEN <<>>
    ELSE LET parts == Parts(line)
         IN  IF Len(parts) < 2 THEN <<>>
             ELSE LET word == StripQuotes(Trim(parts[1]))
                      translation == StripQuotes(Trim(JoinComma(parts, 2)))
                      extra == IF Len(parts) > 2
                               THEN StripQuotes(Trim(parts[3]))
                               ELSE <<>>
                  IN  IF word = <<>> \/ translation = <<>> THEN <<>>
                      ELSE << [word |-> word, translation |-> translation,
                               hanja |-> IF extra # <<>> /\ HasHanja(extra)
                                         THEN extra ELSE NoHanja] >>

\* BATCH_SIZE of the worker, scaled down.
BATCH_SIZE == 2

\* The worker's counters and outbox: currentBatch, processedCount and the
\* 'batch' messages posted.
WorkerState(batch, count, out) ==
    [currentBatch |-> batch, processedCount |-> count, posted |-> out]

\* processLines(lines).
RECURSIVE processLines(_, _)
processLines(lines, w) ==
    IF lines = <<>> THEN w
    ELSE LET batch == w.currentBatch \o ParseLine(Head(lines))
         IN  IF ParseLine(Head(lines)) # <<>> /\ Len(batch) >= BATCH_SIZE
             THEN processLines(Tail(lines),
                      WorkerState(<<>>, w.processedCount + Len(batch),
                                  Append(w.posted, batch)))
             ELSE processLines(Tail(lines),
                      WorkerState(batch, w.processedCount, w.posted))

\* A chunk that forgets the partial line before it.
CombinedWithoutLeftover(left, textChunk) == textChunk

\* const combined = leftover + textChunk.
Combined(left, textChunk) == left \o textChunk

\* An end of input that posts no batch: the entries under way are dropped.
FinishedWithoutFlush(w, left) ==
    IF Trim(left) # <<>> THEN processLines(<<left>>, w) ELSE w

\* The end of the input: the leftover is a line if it is not blank, and the
\* batch under way is posted.
Finished(w, left) ==
    LET v == IF Trim(left) # <<>> THEN processLines(<<left>>, w) ELSE w
    IN  IF v.currentBatch # <<>>
        THEN WorkerState(v.currentBatch,
                         v.processedCount + Len(v.currentBatch),
                         Append(v.posted, v.currentBatch))
        ELSE v

\* The entries of a sequence of batches, in order.
RECURSIVE Flatten(_)
Flatten(batches) ==
    IF batches = <<>> THEN <<>> ELSE Head(batches) \o Flatten(Tail(batches))

\* The worker fed one chunk of bytes: decode, split, keep the last piece,
\* process the lines before it.
FeedChunk(chunk) ==
    LET decoded == DecodeFrom(decoder, chunk, <<>>)
        lines == SplitLines(Combined(leftover, decoded[2]))
        w == processLines(SubSeq(lines, 1, Len(lines) - 1),
                          WorkerState(currentBatch, processedCount, posted))
    IN  /\ decoder' = decoded[1]
        /\ leftover' = lines[Len(lines)]
        /\ currentBatch' = w.currentBatch
        /\ processedCount' = w.processedCount
        /\ posted' = w.posted

\* The worker at the end of the input.
FinishWorker ==
    LET w == Finished(WorkerState(currentBatch, processedCount, posted),
                      leftover)
    IN  /\ currentBatch' = w.currentBatch
        /\ processedCount' = w.processedCount
        /\ posted' = w.posted
        /\ parserDone' = TRUE
        /\ UNCHANGED <<decoder, leftover>>

\* Where the chunk that ends at byte `to` cuts the text.
NoteCut(to) ==
    /\ cutInCRLF' = (cutInCRLF \/ (/\ to < Len(input)
                                  /\ input[to] = 13
                                  /\ input[to + 1] = 10))
    /\ cutInLine' = (cutInLine \/ (/\ to < Len(input)
                                  /\ input[to] \notin {10, 13}
                                  /\ input[to + 1] \notin {10, 13}))

\* CHUNK_SIZE of file mode, scaled down.
CHUNK_SIZE == 3

\* The longest chunk a download delivers.
MaxChunkLen == 3

Min(a, b) == IF a <= b THEN a ELSE b

\* File mode, reader.onload of readNextChunk while offset < fileSize: the
\* slice [offset, offset + CHUNK_SIZE) of the file.
ReadNextChunk ==
    /\ mode = "file"
    /\ ~ parserDone
    /\ offset < Len(input)
    /\ FeedChunk(SubSeq(input, offset + 1, Min(offset + CHUNK_SIZE, Len(input))))
    /\ offset' = offset + CHUNK_SIZE
    /\ NoteCut(Min(offset + CHUNK_SIZE, Len(input)))
    /\ UNCHANGED <<input, mode, parserDone>>

\* File mode, readNextChunk once offset >= fileSize.
FileEnd ==
    /\ mode = "file"
    /\ ~ parserDone
    /\ offset >= Len(input)
    /\ FinishWorker
    /\ UNCHANGED <<input, mode, offset, cutInCRLF, cutInLine>>

\* Stream mode, the 'streamData' message with the next n bytes.
StreamData(n) ==
    /\ mode = "stream"
    /\ ~ parserDone
    /\ offset + n <= Len(input)
    /\ FeedChunk(SubSeq(input, offset + 1, offset + n))
    /\ offset' = offset + n
    /\ NoteCut(offset + n)
    /\ UNCHANGED <<input, mode, parserDone>>

\* Stream mode, the 'streamEnd' message, sent after the last chunk.
StreamEnd ==
    /\ mode = "stream"
    /\ ~ parserDone
    /\ offset = Len(input)
    /\ FinishWorker
    /\ UNCHANGED <<input, mode, offset, cutInCRLF, cutInLine>>

\* The lines the input texts are made of, as UTF-8 bytes: a,x  "c,d",z
\* a blank  e<full-width comma>w  k<TAB>v<TAB><Hanja>  and a<CR>,x.
InputLines ==
    { <<97, 44, 120>>,
      <<34, 99, 44, 100, 34, 44, 122>>,
      <<32>>,
      <<101, 239, 188, 140, 119>>,
      <<107, 9, 118, 9, 230, 188, 162>>,
      <<97, 13, 44, 120>> }

LineEnds == { <<10>>, <<13, 10>> }

\* How many lines an input text has at most.
MaxLines == 2

\* The texts of n lines; the last line may lack its line end.
RECURSIVE TextsOf(_)
TextsOf(n) ==
    IF n = 1
    THEN InputLines \cup { l \o e : l \in InputLines, e \in LineEnds }
    ELSE { l \o e \o t : l \in InputLines, e \in LineEnds, t \in TextsOf(n - 1) }

Texts == UNION { TextsOf(n) : n \in 1..MaxLines }

\* The worker as created, before its first message.
InitWorker ==
    /\ offset = 0
    /\ decoder = DecoderReset
    /\ leftover = <<>>
    /\ currentBatch = <<>>
    /\ processedCount = 0
    /\ posted = <<>>
    /\ parserDone = FALSE
    /\ cutInCRLF = FALSE
    /\ cutInLine = FALSE

InitParser ==
    /\ input \in Texts
    /\ mode \in {"file", "stream"}
    /\ InitWorker

ReadNextChunkStep ==
    ReadNextChunk /\ UNCHANGED <<bloomVars, hubVars, importVars, resolverVars, overlapVars, syncVars, failVars, knownVars>>

FileEndStep ==
    FileEnd /\ UNCHANGED <<bloomVars, hubVars, importVars, resolverVars, overlapVars, syncVars, failVars, knownVars>>

StreamDataStep ==
    (\E n \in 1..MaxChunkLen : StreamData(n))
        /\ UNCHANGED <<bloomVars, hubVars, importVars, resolverVars, overlapVars, syncVars, failVars, knownVars>>

StreamEndStep ==
    StreamEnd /\ UNCHANGED <<bloomVars, hubVars, importVars, resolverVars, overlapVars, syncVars, failVars, knownVars>>

NextParser ==
    \/ ReadNextChunkStep
    \/ FileEndStep
    \/ StreamDataStep
    \/ StreamEndStep

\* The lines of the texts that fill more than one batch: a,x  a blank  and
\* b, a line without separator.
BatchLines == { <<97, 44, 120>>, <<32>>, <<98>> }

\* How many lines such a text has.
MaxBatchLines == 4

\* The texts of n lines from BatchLines, the last with or without its LF.
RECURSIVE BatchTextsOf(_)
BatchTextsOf(n) ==
    IF n = 1
    THEN BatchLines \cup { l \o <<10>> : l \in BatchLines }
    ELSE { l \o <<10>> \o t : l \in BatchLines, t \in BatchTextsOf(n - 1) }

InitBatches ==
    /\ input \in BatchTextsOf(MaxBatchLines)
    /\ mode \in {"file", "stream"}
    /\ InitWorker

\* The entries the worker posts when the whole text is one chunk.
OneShot(bytes) ==
    LET decoded == DecodeFrom(DecoderReset, bytes, <<>>)
        lines == SplitLines(decoded[2])
        w == processLines(SubSeq(lines, 1, Len(lines) - 1),
                          WorkerState(<<>>, 0, <<>>))
    IN  Flatten(Finished(w, lines[Len(lines)]).posted)

----------------------------------------------------------------------------
(* Import pipeline: the worker, the main thread's onmessage handlers and   *)
(* the transactions of importBatchToDict                                   *)

\* The files imported: five lines a,x .. e,x ended by LF, the last line
\* without its line end, and the same lines ended by CR LF.
ImportTexts ==
    { <<97, 44, 120, 10, 98, 44, 120, 10, 99, 44, 120, 10, 100, 44, 120, 10,
        101, 44, 120>>,
      <<97, 44, 120, 13, 10, 98, 44, 120, 13, 10, 99, 44, 120, 13, 10,
        100, 44, 120, 13, 10, 101, 44, 120, 13, 10>> }

\* The import after createDictionary: source 1 of EN exists and is empty,
\* the worker has its file or awaits the first chunk of the download.
InitImport ==
    /\ dict_meta = Put(InitialMeta, 1, NewDictionaryIn(InitialMeta, 1, "EN"))
    /\ dict_entries = <<>>
    /\ legacy = <<>>
    /\ nextId = 2
    /\ selectedTab = "EN"
    /\ dictionaries = GetDictionariesIn(InitialMeta, "EN")
    /\ importing = {1}
    /\ creating = {}
    /\ hubSteps = 0
    /\ input \in ImportTexts
    /\ mode \in {"file", "stream"}
    /\ InitWorker
    /\ received = 0
    /\ writing = <<>>
    /\ committed = {}
    /\ failed = {}
    /\ crashed = FALSE
    /\ completed = "none"

\* The worker reads on, whatever the main thread does with its messages:
\* file mode re-arms readNextChunk with setTimeout, and the download loop
\* pushes each chunk as it arrives.
WorkerRuns ==
    /\ ~ crashed
    /\ NextParser

\* worker.onmessage for the next 'batch' message: onBatch(entries) calls
\* importBatchToDict, which opens a transaction; the handler's await does
\* not hold back the next message.
ReceiveBatch ==
    /\ ~ crashed
    /\ received < Len(posted)
    /\ received' = received + 1
    /\ writing' = Append(writing, received + 1)
    /\ UNCHANGED <<committed, failed, crashed, completed>>
    /\ UNCHANGED <<bloomVars, hubVars, parserVars, resolverVars, overlapVars, syncVars, failVars, knownVars>>

\* tx.oncomplete of the oldest open transaction: its puts and its count
\* update become visible together.
CommitWrite ==
    /\ ~ crashed
    /\ writing # <<>>
    /\ \E dictId \in importing :
          /\ dict_entries' = PutEntries(dict_entries, posted[Head(writing)],
                                        dictId)
          /\ dict_meta' = CountedMeta(dict_meta, posted[Head(writing)], dictId)
    /\ committed' = committed \cup {Head(writing)}
    /\ writing' = Tail(writing)
    /\ UNCHANGED <<received, failed, crashed, completed>>
    /\ UNCHANGED <<legacy, nextId, selectedTab, dictionaries, importing,
                   hubSteps>>
    /\ UNCHANGED <<bloomVars, parserVars, resolverVars, overlapVars, syncVars, failVars, knownVars>>

\* tx.onerror of the oldest open transaction: nothing of it is stored and
\* the promise rejects; the handler logs "Batch insert failed" (file) or
\* leaves the rejection unhandled (download), and the import goes on.
FailWrite ==
    /\ ~ crashed
    /\ writing # <<>>
    /\ failed' = failed \cup {Head(writing)}
    /\ writing' = Tail(writing)
    /\ UNCHANGED <<received, committed, crashed, completed>>
    /\ UNCHANGED <<bloomVars, hubVars, parserVars, resolverVars, overlapVars, syncVars, failVars, knownVars>>

\* The page is closed: the worker and the handlers stop, the open
\* transactions abort.
Crash ==
    /\ ~ crashed
    /\ crashed' = TRUE
    /\ writing' = <<>>
    /\ UNCHANGED <<received, committed, failed, completed>>
    /\ UNCHANGED <<bloomVars, hubVars, parserVars, resolverVars, overlapVars, syncVars, failVars, knownVars>>

\* worker.onmessage / finalListener for the 'done' message, which follows
\* the last 'batch' message: resolve({ total, bloomBuffer }), and the
\* caller reports success.
ReceiveDone ==
    /\ ~ crashed
    /\ parserDone
    /\ received = Len(posted)
    /\ completed = "none"
    /\ completed' = "resolved"
    /\ UNCHANGED <<received, writing, committed, failed, crashed>>
    /\ UNCHANGED <<bloomVars, hubVars, parserVars, resolverVars, overlapVars, syncVars, failVars, knownVars>>

NextImport ==
    \/ WorkerRuns
    \/ ReceiveBatch
    \/ ReceiveDone
    \/ CommitWrite
    \/ FailWrite
    \/ Crash

----------------------------------------------------------------------------
(* Waterfall resolver (handleAddWord of App.tsx, linguistics.ts)           *)

\* The characters of the class [.,!?;:()"'«»].
Punctuation == {46, 44, 33, 63, 59, 58, 40, 41, 34, 39, 171, 187}

RECURSIVE StripLeft(_)
StripLeft(s) ==
    IF s # <<>> /\ (Head(s) \in Punctuation \/ IsSpace(Head(s)))
    THEN StripLeft(Tail(s))
    ELSE s

RECURSIVE StripRight(_)
StripRight(s) ==
    IF s # <<>> /\ (s[Len(s)] \in Punctuation \/ IsSpace(s[Len(s)]))
    THEN StripRight(SubSeq(s, 1, Len(s) - 1))
    ELSE s

\* word.replace(/^[.,!?;:()"'«»\s]+|[.,!?;:()"'«»\s]+$/g, '').
CleanWord(word) == StripRight(StripLeft(word))

\* s.replace(/[.,!?;:()"'«»]/g, '').
RemovePunctuation(s) == SelectSeq(s, LAMBDA c : c \notin Punctuation)

\* w.endsWith(suffix).
EndsWith(w, suffix) ==
    /\ Len(w) >= Len(suffix)
    /\ SubSeq(w, Len(w) - Len(suffix) + 1, Len(w)) = suffix

\* w.slice(0, -k).
DropLast(w, k) == IF Len(w) > k THEN SubSeq(w, 1, Len(w) - k) ELSE <<>>

\* candidates.add(x) on a Set kept in insertion order.
AddCandidate(candidates, x) ==
    IF \E i \in 1..Len(candidates) : candidates[i] = x
    THEN candidates
    ELSE Append(candidates, x)

\* The rules <<condition, candidate>> applied in order.
RECURSIVE AddRules(_, _)
AddRules(candidates, rules) ==
    IF rules = <<>> THEN candidates
    ELSE AddRules(IF Head(rules)[1]
                  THEN AddCandidate(candidates, Head(rules)[2])
                  ELSE candidates,
                  Tail(rules))

EnglishRules(w) ==
    LET n == Len(w)
    IN  << <<EndsWith(w, <<115>>) /\ n > 3, DropLast(w, 1)>>,
           <<EndsWith(w, <<101, 115>>) /\ n > 4, DropLast(w, 2)>>,
           <<EndsWith(w, <<105, 101, 115>>) /\ n > 4,
             DropLast(w, 3) \o <<121>>>>,
           <<EndsWith(w, <<105, 110, 103>>) /\ n > 4, DropLast(w, 3)>>,
           <<EndsWith(w, <<105, 110, 103>>) /\ n > 5 /\ w[n - 3] = w[n - 4],
             DropLast(w, 4)>>,
           <<EndsWith(w, <<105, 110, 103>>) /\ n > 4,
             DropLast(w, 3) \o <<101>>>>,
           <<EndsWith(w, <<101, 100>>) /\ n > 3, DropLast(w, 2)>>,
           <<EndsWith(w, <<101, 100>>) /\ n > 4 /\ w[n - 2] = w[n - 3],
             DropLast(w, 3)>>,
           <<EndsWith(w, <<101, 100>>) /\ n > 3, DropLast(w, 1)>>,
           <<EndsWith(w, <<105, 101, 100>>), DropLast(w, 3) \o <<121>>>>,
           <<EndsWith(w, <<108, 121>>) /\ n > 4, DropLast(w, 2)>> >>

erEndings ==
    << <<101>>, <<101, 115>>, <<111, 110, 115>>, <<101, 122>>,
       <<101, 110, 116>>, <<97, 105>>, <<97, 115>>, <<97>>,
       <<226, 109, 101, 115>>, <<226, 116, 101, 115>>,
       <<232, 114, 101, 110, 116>>, <<97, 105, 115>>, <<97, 105, 116>>,
       <<105, 111, 110, 115>>, <<105, 101, 122>>, <<97, 105, 101, 110, 116>>,
       <<101, 114, 97, 105>>, <<101, 114, 97, 115>>, <<101, 114, 97>> >>

irEndings ==
    << <<105, 115>>, <<105, 116>>, <<105, 115, 115, 111, 110, 115>>,
       <<105, 115, 115, 101, 122>>, <<105, 115, 115, 101, 110, 116>>,
       <<105, 114, 97, 105>>, <<105, 114, 97, 115>> >>

\* endings.forEach: a stem of more than two letters takes the infinitive.
EndingRules(w, endings, infinitive) ==
    [k \in 1..Len(endings) |->
        << EndsWith(w, endings[k]) /\ Len(w) > Len(endings[k]) + 2,
           DropLast(w, Len(endings[k])) \o infinitive >>]

FrenchRules(w) ==
    << <<EndsWith(w, <<115>>), DropLast(w, 1)>>,
       <<EndsWith(w, <<120>>), DropLast(w, 1)>>,
       <<EndsWith(w, <<97, 117, 120>>), DropLast(w, 3) \o <<97, 108>>>> >>
    \o EndingRules(w, erEndings, <<101, 114>>)
    \o << <<EndsWith(w, <<101, 111, 110, 115>>),
            DropLast(w, 4) \o <<101, 114>>>> >>
    \o EndingRules(w, irEndings, <<105, 114>>)
    \o << <<EndsWith(w, <<233>>), DropLast(w, 1) \o <<101, 114>>>>,
          <<EndsWith(w, <<233, 101>>), DropLast(w, 2) \o <<101, 114>>>>,
          <<EndsWith(w, <<233, 115>>), DropLast(w, 2) \o <<101, 114>>>>,
          <<EndsWith(w, <<105>>), DropLast(w, 1) \o <<105, 114>>>> >>

particles ==
    << <<51008>>, <<45716>>, <<51060>>, <<44032>>, <<51012>>, <<47484>>,
       <<50640>>, <<50640, 49436>>, <<50640, 44172>>, <<54620, 53580>>,
       <<44760>>, <<47196>>, <<51004, 47196>>, <<51032>>, <<50752>>,
       <<44284>>, <<54616, 44256>>, <<51060, 46993>>, <<46020>>, <<47564>>,
       <<44620, 51648>>, <<51312, 52264>>, <<48512, 53552>> >>

KoreanRules(w) ==
    [k \in 1..Len(particles) |->
        << EndsWith(w, particles[k]) /\ Len(w) > Len(particles[k]),
           DropLast(w, Len(particles[k])) >>]
    \o << <<EndsWith(w, <<50836>>), DropLast(w, 1)>>,
          <<EndsWith(w, <<49845, 45768, 45796>>),
            DropLast(w, 3) \o <<45796>>>>,
          <<EndsWith(w, <<51077, 45768, 45796>>),
            DropLast(w, 3) \o <<45796>>>>,
          <<EndsWith(w, <<45768, 44620>>), DropLast(w, 2) \o <<45796>>>>,
          <<EndsWith(w, <<44256>>), DropLast(w, 1) \o <<45796>>>> >>

\* getLemmaCandidates(word, language).
getLemmaCandidates(word, lang) ==
    LET w == RemovePunctuation(Trim(ToLowerCase(word)))
    IN  AddRules(<<w>>,
                 CASE lang = "EN" -> EnglishRules(w)
                   [] lang = "FR" -> FrenchRules(w)
                   [] lang = "KR" -> KoreanRules(w))

\* The words clicked: cats, Cats. and running.
ResolverWords ==
    { <<99, 97, 116, 115>>,
      <<67, 97, 116, 115, 46>>,
      <<114, 117, 110, 110, 105, 110, 103>> }

\* The words the USER source may hold at the start: cat and run.
StoredWords == { <<99, 97, 116>>, <<114, 117, 110>> }

ResolverLanguages == {"EN", "FR"}

\* What defineWord may return: a translation, or the placeholder
\* "AI 定义失败" on a failure or an empty answer.
AiPlaceholder == <<65, 73, 32, 23450, 20041, 22833, 36133>>

\* What the AI request comes to: a JSON answer with a translation, one
\* without (or an empty response text), or a request or a JSON.parse that
\* throws.
AiOutcomes ==
    { [kind |-> "answer", translation |-> T1],
      [kind |-> "answer", translation |-> <<>>],
      [kind |-> "throws", translation |-> <<>>] }

\* The request failed or brought no translation.
AiFailed(outcome) == outcome.kind = "throws" \/ outcome.translation = <<>>

\* A defineWord without its try/catch: a throwing request rejects it.
defineWordUncaught(outcome) ==
    [threw |-> outcome.kind = "throws",
     translation |-> IF outcome.kind = "answer" /\ outcome.translation # <<>>
                     THEN outcome.translation
                     ELSE AiPlaceholder]

\* defineWord(word, context, language): data.translation || "AI 定义失败",
\* and the same placeholder from the catch block.
defineWord(outcome) ==
    [threw |-> FALSE,
     translation |-> IF outcome.kind = "answer" /\ outcome.translation # <<>>
                     THEN outcome.translation
                     ELSE AiPlaceholder]

\* result.translation.includes("失败").
IncludesFailure(t) ==
    \E i \in 1..(Len(t) - 1) : t[i] = 22833 /\ t[i + 1] = 36133

\* How many handleAddWord calls one behaviour makes.
MaxCalls == 2

\* A set of words as parser entries, in key order.
RECURSIVE EntriesOf(_)
EntriesOf(words) ==
    IF words = {} THEN <<>>
    ELSE LET w == CHOOSE x \in words : \A y \in words \ {x} : StrLess(x, y)
         IN  << [word |-> w, translation |-> T2, hanja |-> NoHanja] >>
             \o EntriesOf(words \ {w})

\* The application on a store whose USER source of the language holds some
\* saved definitions; the vocabulary is empty and no call is under way.
InitResolver ==
    /\ appLanguage \in ResolverLanguages
    /\ \E words \in SUBSET StoredWords :
          /\ dict_entries =
                PutEntries(<<>>, EntriesOf(words), UserId(appLanguage))
          /\ dict_meta =
                CountedMeta(InitialMeta, EntriesOf(words), UserId(appLanguage))
    /\ legacy = <<>>
    /\ nextId = 1
    /\ selectedTab = "EN"
    /\ dictionaries = GetDictionariesIn(InitialMeta, "EN")
    /\ importing = {}
    /\ creating = {}
    /\ hubSteps = 0
    /\ vocabulary = <<>>
    /\ rendered = <<>>
    /\ calls = <<>>

\* vocabulary.some(v => v.word.toLowerCase() === cleanWord.toLowerCase()
\* && v.language === language), on the vocabulary the handler closes over.
Exists(vocab, cleanWord, lang) ==
    \E i \in 1..Len(vocab) :
        /\ ToLowerCase(vocab[i].word) = ToLowerCase(cleanWord)
        /\ vocab[i].language = lang

\* updateWordDefinition(id, translation).
UpdateWordDefinition(vocab, id, translation) ==
    [i \in 1..Len(vocab) |->
        IF vocab[i].id = id
        THEN [vocab[i] EXCEPT !.translation = translation]
        ELSE vocab[i]]

HubEvent(word, results) ==
    [stage |-> "hub", word |-> word, empty |-> (results = <<>>)]

AiEvent == [stage |-> "ai", word |-> <<>>, empty |-> TRUE]

\* The candidates the loop looks up: those that differ from the clean
\* word, case aside.
LoopCandidates(cleanWord, lang) ==
    SelectSeq(getLemmaCandidates(cleanWord, lang),
              LAMBDA c : ToLowerCase(c) # ToLowerCase(cleanWord))

\* A bridge that is tried whatever the exact lookup returned.
AlwaysBridge(results) == TRUE

\* if (cascadeResults.length === 0): the lemma bridge is needed.
BridgeNeeded(results) == Len(results) = 0

\* The end of the lookups: with a definition the item is updated, else
\* handleAskAI(newItem) calls defineWord.
Resolved(call, results) ==
    IF results # <<>> /\ results[1].entry.translation # <<>>
    THEN [call EXCEPT !.pc = "done",
                      !.definition = results[1].entry.translation]
    ELSE [call EXCEPT !.pc = "ai", !.log = Append(@, AiEvent)]

\* The call moves on to `next`; a definition found goes to the vocabulary.
Continue(c, next) ==
    /\ calls' = [calls EXCEPT ![c] = next]
    /\ vocabulary' =
          IF next.pc = "done" /\ next.definition # <<>>
          THEN UpdateWordDefinition(vocabulary, next.itemId, next.definition)
          ELSE vocabulary

\* handleAddWord(word, context) up to its first await: the clean word, the
\* check against the vocabulary of this render, setVocabulary.
HandleAddWord(word) ==
    LET cleanWord == CleanWord(word)
        exists == Exists(rendered, cleanWord, appLanguage)
        id == Len(calls) + 1
        call == [cleanWord |-> cleanWord, seen |-> exists, itemId |-> id,
                 pc |-> IF cleanWord = <<>> \/ exists THEN "done" ELSE "exact",
                 pending |-> <<>>, definition |-> <<>>, log |-> <<>>,
                 ai |-> "none"]
    IN  /\ Len(calls) < MaxCalls
        /\ calls' = Append(calls, call)
        /\ vocabulary' =
              IF call.pc = "exact"
              THEN << [id |-> id, word |-> cleanWord,
                       language |-> appLanguage, translation |-> <<>>] >>
                   \o vocabulary
              ELSE vocabulary
        /\ UNCHANGED <<appLanguage, rendered>>
        /\ UNCHANGED <<bloomVars, hubVars, parserVars, importVars, overlapVars, syncVars, failVars, knownVars>>

\* React renders: the handlers of the new render close over the state.
Render ==
    /\ rendered # vocabulary
    /\ rendered' = vocabulary
    /\ UNCHANGED <<appLanguage, vocabulary, calls>>
    /\ UNCHANGED <<bloomVars, hubVars, parserVars, importVars, overlapVars, syncVars, failVars, knownVars>>

\* await db.lookupCascade(language, cleanWord) returns.
ExactLookup(c) ==
    LET call == calls[c]
        results == lookupCascade(appLanguage, call.cleanWord)
        logged == [call EXCEPT !.log = Append(@, HubEvent(call.cleanWord,
                                                         results))]
        candidates == LoopCandidates(call.cleanWord, appLanguage)
    IN  /\ call.pc = "exact"
        /\ Continue(c, IF BridgeNeeded(results) /\ candidates # <<>>
                       THEN [logged EXCEPT !.pc = "lemma",
                                           !.pending = candidates]
                       ELSE Resolved(logged, results))
        /\ UNCHANGED <<appLanguage, rendered>>
        /\ UNCHANGED <<bloomVars, hubVars, parserVars, importVars, overlapVars, syncVars, failVars, knownVars>>

\* await db.lookupCascade(language, candidate) returns, in the loop.
LemmaLookup(c) ==
    LET call == calls[c]
        candidate == Head(call.pending)
        results == lookupCascade(appLanguage, candidate)
        logged == [call EXCEPT !.log = Append(@, HubEvent(candidate, results)),
                               !.pending = Tail(@)]
    IN  /\ call.pc = "lemma"
        /\ Continue(c, IF results = <<>> /\ logged.pending # <<>>
                       THEN logged
                       ELSE Resolved(logged, results))
        /\ UNCHANGED <<appLanguage, rendered>>
        /\ UNCHANGED <<bloomVars, hubVars, parserVars, importVars, overlapVars, syncVars, failVars, knownVars>>

\* handleAskAI once the AI request has come to `outcome`: the item is
\* updated with what defineWord returns and a usable translation is saved
\* to the hub; a rejected defineWord ends in the catch block.
AskAIReturns(c, outcome) ==
    LET call == calls[c]
        result == defineWord(outcome)
        answer == result.translation
        ai == IF AiFailed(outcome) THEN "failed" ELSE "answered"
    IN  /\ call.pc = "ai"
        /\ IF result.threw
           THEN /\ calls' = [calls EXCEPT ![c].pc = "done", ![c].ai = ai]
                /\ UNCHANGED <<vocabulary, dict_meta, dict_entries, legacy>>
           ELSE /\ calls' = [calls EXCEPT ![c].pc = "done", ![c].ai = ai,
                                          ![c].definition = answer]
                /\ vocabulary' =
                      UpdateWordDefinition(vocabulary, call.itemId, answer)
                /\ IF answer # <<>> /\ ~ IncludesFailure(answer)
                   THEN SaveDefinitionWrites(appLanguage, call.cleanWord,
                                             answer, NoHanja)
                   ELSE UNCHANGED <<dict_meta, dict_entries, legacy>>
        /\ UNCHANGED <<nextId, selectedTab, dictionaries, importing, hubSteps>>
        /\ UNCHANGED <<appLanguage, rendered>>
        /\ UNCHANGED <<bloomVars, parserVars, importVars, overlapVars, syncVars, failVars, knownVars>>

HandleAddWordStep == \E word \in ResolverWords : HandleAddWord(word)

ExactLookupStep == \E c \in 1..Len(calls) : ExactLookup(c)

LemmaLookupStep == \E c \in 1..Len(calls) : LemmaLookup(c)

AskAIReturnsStep ==
    \E c \in 1..Len(calls) : \E outcome \in AiOutcomes :
        AskAIReturns(c, outcome)

NextResolver ==
    \/ HandleAddWordStep
    \/ Render
    \/ ExactLookupStep
    \/ LemmaLookupStep
    \/ AskAIReturnsStep

\* How many times the dialog's switch of a source is used while the
\* resolver runs.
MaxToggles == 1

\* The application on a store without saved definitions, the settings
\* dialog open on the tab of the application's language.
InitPersist ==
    /\ appLanguage = "EN"
    /\ InitStore
    /\ legacy = <<>>
    /\ hubSteps = MaxToggles
    /\ vocabulary = <<>>
    /\ rendered = <<>>
    /\ calls = <<>>

\* The resolver while the user switches sources off and on.
NextPersist ==
    \/ NextResolver
    \/ ToggleDictionaryStep

----------------------------------------------------------------------------
(* downloadAndImportDictionary: the call from its first progress report to *)
(* its resolution or rejection                                             *)

\* The bytes one behaviour downloads at most, and the most one read returns.
MaxReceived == 4

MaxReadLen == 2

\* The progress reports one behaviour makes before the stream ends.
MaxReports == 4

\* The content-length header: absent (<<>>) or a decimal number.
ContentLengths == { <<>>, <<0>>, <<2>>, <<4>> }

\* contentLength ? parseInt(contentLength, 10) : 0.
ParsedLength(header) == IF header = <<>> THEN 0 ELSE header[1]

\* Math.round(a / b * 100) for a >= 0 and b > 0.
RoundPercent(a, b) == ((200 * a) + b) \div (2 * b)

\* The largest file whose file-mode progress values are computed.
MaxFileSize == 7

\* File mode, reader.onload: Math.min(100, Math.round(((offset +
\* CHUNK_SIZE) / fileSize) * 100)).
FileProgress(off, fileSize) ==
    Min(100, RoundPercent(off + CHUNK_SIZE, fileSize))

\* The offsets at which readNextChunk reads a chunk of a file.
ChunkOffsets(fileSize) ==
    { off \in 0..(fileSize - 1) : off % CHUNK_SIZE = 0 }

\* The messages of the errors the steps of the call fail with.
FetchErrors == { <<"Failed to fetch">> }

NoBodyError == <<"ReadableStream not supported in this browser.">>

StoreErrors == { <<"QuotaExceededError">> }

ReadErrors == { <<"network error">> }

FinalizeErrors == { <<"Invalid typed array length">> }

\* A catch block that throws the error on as it came.
Rethrown(message) == message

\* catch (e): throw new Error(`Sync failed: ${e.message}`).
SyncFailed(message) == <<"Sync failed: ">> \o message

\* onProgress(status, percent).
Report(kind, percent) == reports' = Append(reports, <<kind, percent>>)

InitSync ==
    /\ syncPc = "idle"
    /\ fetches = 0
    /\ totalLength = 0
    /\ receivedLength = 0
    /\ reports = <<>>
    /\ underlying = <<>>
    /\ rejection = <<>>

\* A step of the try block throws or its await rejects: the catch block
\* runs and the call rejects.
Fail(message) ==
    /\ underlying' = message
    /\ rejection' = SyncFailed(message)
    /\ syncPc' = "rejected"

\* onProgress('Connecting to Cloud...', 0); fetch(url) is issued.
StartDownload ==
    /\ syncPc = "idle"
    /\ Report("connecting", 0)
    /\ fetches' = fetches + 1
    /\ syncPc' = "fetching"
    /\ UNCHANGED <<totalLength, receivedLength, underlying, rejection>>

\* await fetch(url) rejects.
FetchRejects(message) ==
    /\ syncPc = "fetching"
    /\ Fail(message)
    /\ UNCHANGED <<fetches, totalLength, receivedLength, reports>>

\* fetch resolves: the body check, the content-length header, getReader().
FetchReturns(hasBody, header) ==
    /\ syncPc = "fetching"
    /\ IF hasBody
       THEN /\ totalLength' = ParsedLength(header)
            /\ syncPc' = "creating"
            /\ UNCHANGED <<underlying, rejection>>
       ELSE /\ Fail(NoBodyError)
            /\ UNCHANGED totalLength
    /\ UNCHANGED <<fetches, receivedLength, reports>>

\* await db.createDictionary(...) resolves and the stream parser is made.
CreateReturns ==
    /\ syncPc = "creating"
    /\ syncPc' = "reading"
    /\ UNCHANGED <<fetches, totalLength, receivedLength, reports, underlying,
                   rejection>>

\* await db.createDictionary(...) rejects.
CreateRejects(message) ==
    /\ syncPc = "creating"
    /\ Fail(message)
    /\ UNCHANGED <<fetches, totalLength, receivedLength, reports>>

\* reader.read() gives a chunk of n bytes: parser.push(value), then the
\* progress report of the download loop.
ReadChunk(n) ==
    /\ syncPc = "reading"
    /\ receivedLength + n <= MaxReceived
    /\ Len(reports) < MaxReports
    /\ receivedLength' = receivedLength + n
    /\ IF totalLength > 0
       THEN Report("downloading", RoundPercent(receivedLength', totalLength))
       ELSE Report("downloading", 50)
    /\ UNCHANGED <<syncPc, fetches, totalLength, underlying, rejection>>

\* reader.read() rejects.
ReadRejects(message) ==
    /\ syncPc = "reading"
    /\ Fail(message)
    /\ UNCHANGED <<fetches, totalLength, receivedLength, reports>>

\* reader.read() gives done: onProgress('Finalizing Index...', 100) and
\* parser.end() is awaited.
ReadDone ==
    /\ syncPc = "reading"
    /\ Report("finalizing", 100)
    /\ syncPc' = "ending"
    /\ UNCHANGED <<fetches, totalLength, receivedLength, underlying, rejection>>

\* parser.end() resolves, the Bloom filter is merged and
\* onProgress(`Done! ...`, 100) is the last statement of the try block.
EndReturns ==
    /\ syncPc = "ending"
    /\ Report("done", 100)
    /\ syncPc' = "resolved"
    /\ UNCHANGED <<fetches, totalLength, receivedLength, underlying, rejection>>

\* A statement after parser.end() throws before the last report.
FinalizeFails(message) ==
    /\ syncPc = "ending"
    /\ Fail(message)
    /\ UNCHANGED <<fetches, totalLength, receivedLength, reports>>

StartDownloadStep ==
    StartDownload
    /\ UNCHANGED <<bloomVars, hubVars, parserVars, importVars, resolverVars,
                   overlapVars, failVars, knownVars>>

FetchRejectsStep ==
    (\E message \in FetchErrors : FetchRejects(message))
    /\ UNCHANGED <<bloomVars, hubVars, parserVars, importVars, resolverVars,
                   overlapVars, failVars, knownVars>>

FetchReturnsStep ==
    (\E hasBody \in BOOLEAN : \E header \in ContentLengths :
        FetchReturns(hasBody, header))
    /\ UNCHANGED <<bloomVars, hubVars, parserVars, importVars, resolverVars,
                   overlapVars, failVars, knownVars>>

CreateReturnsStep ==
    CreateReturns
    /\ UNCHANGED <<bloomVars, hubVars, parserVars, importVars, resolverVars,
                   overlapVars, failVars, knownVars>>

CreateRejectsStep ==
    (\E message \in StoreErrors : CreateRejects(message))
    /\ UNCHANGED <<bloomVars, hubVars, parserVars, importVars, resolverVars,
                   overlapVars, failVars, knownVars>>

ReadChunkStep ==
    (\E n \in 0..MaxReadLen : ReadChunk(n))
    /\ UNCHANGED <<bloomVars, hubVars, parserVars, importVars, resolverVars,
                   overlapVars, failVars, knownVars>>

ReadRejectsStep ==
    (\E message \in ReadErrors : ReadRejects(message))
    /\ UNCHANGED <<bloomVars, hubVars, parserVars, importVars, resolverVars,
                   overlapVars, failVars, knownVars>>

ReadDoneStep ==
    ReadDone
    /\ UNCHANGED <<bloomVars, hubVars, parserVars, importVars, resolverVars,
                   overlapVars, failVars, knownVars>>

EndReturnsStep ==
    EndReturns
    /\ UNCHANGED <<bloomVars, hubVars, parserVars, importVars, resolverVars,
                   overlapVars, failVars, knownVars>>

FinalizeFailsStep ==
    (\E message \in FinalizeErrors : FinalizeFails(message))
    /\ UNCHANGED <<bloomVars, hubVars, parserVars, importVars, resolverVars,
                   overlapVars, failVars, knownVars>>

NextSync ==
    \/ StartDownloadStep
    \/ FetchRejectsStep
    \/ FetchReturnsStep
    \/ CreateReturnsStep
    \/ CreateRejectsStep
    \/ ReadChunkStep
    \/ ReadRejectsStep
    \/ ReadDoneStep
    \/ EndReturnsStep
    \/ FinalizeFailsStep

----------------------------------------------------------------------------
(* Hub operations in which a store request fails                           *)

\* The requests each operation of DictionaryDB issues, and the calls
\* lookupCascade awaits before its own requests.
RequestsOf ==
    [getDictionaries |-> {"index.getAll"},
     importBatchToDict |-> {"store.put", "metaStore.get"},
     deleteDictionary |-> {"metaStore.delete", "index.openCursor"},
     clearDictionaryEntries |-> {"index.openCursor", "metaStore.get"},
     lookupLegacy |-> {"store.get"},
     lookupCascade |-> {"getDictionaries", "lookupLegacy", "wordIndex.getAll",
                        "hanjaIndex.getAll"}]

\* What the operation does in req.onerror of its requests: "resolve" when
\* the handler resolves the promise around the request, "none" when no
\* handler is set.
RequestHandler ==
    [getDictionaries |-> "none",
     importBatchToDict |-> "none",
     deleteDictionary |-> "none",
     clearDictionaryEntries |-> "none",
     lookupLegacy |-> "resolve",
     lookupCascade |-> "resolve"]

\* What the operation does in tx.onerror.
TransactionHandler ==
    [getDictionaries |-> "none",
     importBatchToDict |-> "reject",
     deleteDictionary |-> "reject",
     clearDictionaryEntries |-> "reject",
     lookupLegacy |-> "none",
     lookupCascade |-> "none"]

\* How the promise of an operation ends when the error event of one of its
\* own requests fires: the event reaches req.onerror, then bubbles to
\* tx.onerror; the first handler that settles the promise decides, and
\* with no handler the promise is never settled.
Settled(op) ==
    IF RequestHandler[op] = "resolve" THEN "resolved"
    ELSE IF TransactionHandler[op] = "reject" THEN "rejected"
    ELSE "pending"

\* An async function that awaits a call: a rejection is rethrown, a pending
\* call keeps it pending, a resolved call lets it go on to its return.
Awaiting(inner) == IF inner = "resolved" THEN "resolved" ELSE inner

\* How many failing calls one behaviour makes.
MaxFailedCalls == 3

InitFail == settlements = <<>>

Settle(op, request, outcome) ==
    /\ Len(settlements) < MaxFailedCalls
    /\ settlements' = Append(settlements,
                             [op |-> op, request |-> request,
                              outcome |-> outcome])

\* getDictionaries(language), index.getAll failing.
GetDictionariesFails ==
    \E request \in RequestsOf.getDictionaries :
        Settle("getDictionaries", request, Settled("getDictionaries"))

\* importBatchToDict(entries, dictId), a put or the read of the metadata
\* failing.
ImportBatchToDictFails ==
    \E request \in RequestsOf.importBatchToDict :
        Settle("importBatchToDict", request, Settled("importBatchToDict"))

\* deleteDictionary(dictId), the delete or the cursor failing.
DeleteDictionaryFails ==
    \E request \in RequestsOf.deleteDictionary :
        Settle("deleteDictionary", request, Settled("deleteDictionary"))

\* clearDictionaryEntries(dictId), the cursor or the read of the metadata
\* failing.
ClearDictionaryEntriesFails ==
    \E request \in RequestsOf.clearDictionaryEntries :
        Settle("clearDictionaryEntries", request,
               Settled("clearDictionaryEntries"))

\* lookupLegacy(language, word), the get failing.
LookupLegacyFails ==
    \E request \in RequestsOf.lookupLegacy :
        Settle("lookupLegacy", request, Settled("lookupLegacy"))

\* lookupCascade(language, word): the failure is in the getDictionaries or
\* the lookupLegacy call it awaits, or in one of its own index requests.
LookupCascadeFails ==
    \E request \in RequestsOf.lookupCascade :
        Settle("lookupCascade", request,
               IF request = "getDictionaries"
               THEN Awaiting(Settled("getDictionaries"))
               ELSE IF request = "lookupLegacy"
               THEN Awaiting(Settled("lookupLegacy"))
               ELSE Settled("lookupCascade"))

NextFail ==
    \/ GetDictionariesFails /\ UNCHANGED <<bloomVars, hubVars, parserVars, importVars, resolverVars, overlapVars, syncVars, knownVars>>
    \/ ImportBatchToDictFails /\ UNCHANGED <<bloomVars, hubVars, parserVars, importVars, resolverVars, overlapVars, syncVars, knownVars>>
    \/ DeleteDictionaryFails /\ UNCHANGED <<bloomVars, hubVars, parserVars, importVars, resolverVars, overlapVars, syncVars, knownVars>>
    \/ ClearDictionaryEntriesFails /\ UNCHANGED <<bloomVars, hubVars, parserVars, importVars, resolverVars, overlapVars, syncVars, knownVars>>
    \/ LookupLegacyFails /\ UNCHANGED <<bloomVars, hubVars, parserVars, importVars, resolverVars, overlapVars, syncVars, knownVars>>
    \/ LookupCascadeFails /\ UNCHANGED <<bloomVars, hubVars, parserVars, importVars, resolverVars, overlapVars, syncVars, knownVars>>

----------------------------------------------------------------------------
(* The global filter and the imports that feed it (confirmImport of        *)
(* SettingsModal.tsx, downloadAndImportDictionary, bloomFilter.ts)         *)

\* The imports of one page load; they may run at the same time.
ImportIds == {1, 2}

\* The words of the lines the workers parse: cat, Cat and dog.
LineWords == { <<99, 97, 116>>, <<67, 97, 116>>, <<100, 111, 103>> }

\* How many saveDefinition calls one behaviour makes.
MaxSaves == 1

\* How many lines the file or download of one import has.
MaxParsedLines == 2

\* The page as loaded: export const globalBloomFilter = new BloomFilter(),
\* no import started, the store as init() leaves it.
InitKnown ==
    /\ globalBloomFilter = NewFilter(BloomSize)
    /\ workerBloom = [i \in ImportIds |-> NewSimpleFilter(BloomSize)]
    /\ parsedWords = [i \in ImportIds |-> {}]
    /\ importPhase = [i \in ImportIds |-> [phase |-> "idle", dictId |-> 0]]
    /\ InitStore
    /\ legacy = <<>>
    /\ hubSteps = MaxSaves

\* confirmImport / downloadAndImportDictionary up to the start of the
\* parser: createDictionary, then a worker with its own filter.
BeginImport(i) ==
    /\ importPhase[i].phase = "idle"
    /\ dict_meta' = Put(dict_meta, nextId, NewDictionary(nextId, selectedTab))
    /\ nextId' = nextId + 1
    /\ importing' = importing \cup {nextId}
    /\ importPhase' = [importPhase EXCEPT
                          ![i] = [phase |-> "parsing", dictId |-> nextId]]
    /\ UNCHANGED <<dict_entries, legacy, selectedTab, dictionaries, hubSteps,
                   globalBloomFilter, workerBloom, parsedWords>>

\* processLines for a line with the word w and the translation x:
\* bloom.add(word.toLowerCase()), and the entry goes to the store with the
\* onBatch write of its batch.
ParseAndStore(i, w) ==
    LET entries == << [word |-> w, translation |-> T1, hanja |-> NoHanja] >>
    IN  /\ importPhase[i].phase = "parsing"
        /\ dict_meta[importPhase[i].dictId].count < MaxParsedLines
        /\ workerBloom' = [workerBloom EXCEPT
                              ![i] = SimpleAdd(@, ToLowerCase(w))]
        /\ parsedWords' = [parsedWords EXCEPT ![i] = @ \cup {w}]
        /\ dict_entries' = PutEntries(dict_entries, entries,
                                      importPhase[i].dictId)
        /\ dict_meta' = CountedMeta(dict_meta, entries, importPhase[i].dictId)
        /\ UNCHANGED <<legacy, nextId, selectedTab, dictionaries, importing,
                       hubSteps, globalBloomFilter, importPhase>>

\* An import that leaves the global filter as it was.
MergedNothing(g, buffer) == g

\* if (bloomBuffer) globalBloomFilter.merge(new BloomFilter(2000000,
\* bloomBuffer)).
MergedInto(g, buffer) == BloomMerge(g, FilterFromBuffer(2000000, buffer))

\* The parse ended ('done' with the worker's buffer): the merge into the
\* global filter.
FinishParse(i) ==
    /\ importPhase[i].phase = "parsing"
    /\ globalBloomFilter' = MergedInto(globalBloomFilter, workerBloom[i])
    /\ importPhase' = [importPhase EXCEPT ![i].phase = "merged"]
    /\ importing' = importing \ {importPhase[i].dictId}
    /\ UNCHANGED <<dict_meta, dict_entries, legacy, nextId, selectedTab,
                   dictionaries, hubSteps, workerBloom, parsedWords>>

\* The page is loaded anew: the module-level filter is a new BloomFilter(),
\* the workers are gone, the store is as it was.
Reload ==
    /\ \E i \in ImportIds : importPhase[i].phase # "ended"
    /\ globalBloomFilter' = NewFilter(BloomSize)
    /\ importPhase' = [i \in ImportIds |->
                          [importPhase[i] EXCEPT !.phase = "ended"]]
    /\ importing' = {}
    /\ UNCHANGED <<dict_meta, dict_entries, legacy, nextId, selectedTab,
                   dictionaries, hubSteps, workerBloom, parsedWords>>

BeginImportStep ==
    (\E i \in ImportIds : BeginImport(i)) /\ UNCHANGED <<bloomVars, parserVars, importVars, resolverVars, overlapVars, syncVars, failVars>>

ParseAndStoreStep ==
    (\E i \in ImportIds : \E w \in LineWords : ParseAndStore(i, w)) /\ UNCHANGED <<bloomVars, parserVars, importVars, resolverVars, overlapVars, syncVars, failVars>>

FinishParseStep ==
    (\E i \in ImportIds : FinishParse(i)) /\ UNCHANGED <<bloomVars, parserVars, importVars, resolverVars, overlapVars, syncVars, failVars>>

ReloadStep == Reload /\ UNCHANGED <<bloomVars, parserVars, importVars, resolverVars, overlapVars, syncVars, failVars>>

NextKnown ==
    \/ BeginImportStep
    \/ ParseAndStoreStep
    \/ FinishParseStep
    \/ ReloadStep
    \/ SaveDefinitionStep

----------------------------------------------------------------------------
(* Specifications                                                          *)

\* The parts of the state a specification does not exercise.
IdleBloom ==
    /\ filters = [id \in AllFilterIds |-> NewFilter(BloomSize)]
    /\ addedTo = [id \in AllFilterIds |-> {}]
    /\ bloomOps = 0
    /\ lastOp = NoOp

IdleHub ==
    /\ InitStore
    /\ legacy = <<>>
    /\ hubSteps = 0

IdleParser ==
    /\ input = <<>>
    /\ mode = "file"
    /\ InitWorker

IdleImport ==
    /\ received = 0
    /\ writing = <<>>
    /\ committed = {}
    /\ failed = {}
    /\ crashed = FALSE
    /\ completed = "none"

IdleSync == InitSync

IdleFail == settlements = <<>>

IdleKnown ==
    /\ globalBloomFilter = NewFilter(BloomSize)
    /\ workerBloom = <<>>
    /\ parsedWords = <<>>
    /\ importPhase = <<>>

IdleResolver ==
    /\ appLanguage = "EN"
    /\ vocabulary = <<>>
    /\ rendered = <<>>
    /\ calls = <<>>

\* The Bloom filter class under any adds and merges.
StartBloom ==
    InitBloom /\ IdleHub /\ IdleParser /\ IdleImport /\ IdleResolver
    /\ IdleSync
    /\ IdleFail /\ IdleKnown

SpecBloom == StartBloom /\ [][NextBloom]_vars

\* The hub: the store under the operations of the settings dialog and of
\* the resolver's saveDefinition.
StartHub ==
    InitHub /\ IdleBloom /\ IdleParser /\ IdleImport /\ IdleResolver
    /\ IdleSync
    /\ IdleFail /\ IdleKnown

SpecHub == StartHub /\ [][NextHub]_vars

\* The list of sources under the dialog's operations, imports running or
\* ended included.
StartReorder ==
    InitReorder /\ IdleBloom /\ IdleParser /\ IdleImport /\ IdleResolver
    /\ IdleSync
    /\ IdleFail /\ IdleKnown

SpecReorder == StartReorder /\ [][NextReorder]_vars

\* The hub over short behaviours, each state queried with the case and
\* whitespace variants of the words.
StartLookup ==
    InitLookup /\ IdleBloom /\ IdleParser /\ IdleImport /\ IdleResolver
    /\ IdleSync
    /\ IdleFail /\ IdleKnown

SpecLookup == StartLookup /\ [][NextHub]_vars

\* createDictionary calls that overlap each other and the dialog's
\* operations.
StartOverlap ==
    InitOverlap /\ IdleBloom /\ IdleParser /\ IdleImport /\ IdleResolver
    /\ IdleSync
    /\ IdleFail /\ IdleKnown

SpecOverlap == StartOverlap /\ [][NextOverlap]_vars

\* One download+import call, with every way it can fail.
StartSync ==
    InitSync /\ IdleBloom /\ IdleHub /\ IdleParser /\ IdleImport
    /\ IdleResolver
    /\ IdleFail /\ IdleKnown

SpecSync == StartSync /\ [][NextSync]_vars

\* The worker on any text, cut into chunks in any way.
StartParser ==
    InitParser /\ IdleBloom /\ IdleHub /\ IdleImport /\ IdleResolver
    /\ IdleSync
    /\ IdleFail /\ IdleKnown

SpecParser == StartParser /\ [][NextParser]_vars

\* The worker on texts of several batches, with lines it skips.
StartBatches ==
    InitBatches /\ IdleBloom /\ IdleHub /\ IdleImport /\ IdleResolver
    /\ IdleSync
    /\ IdleFail /\ IdleKnown

SpecBatches == StartBatches /\ [][NextParser]_vars

\* Calls of the hub operations in which one request fails.
StartFail ==
    InitFail /\ IdleBloom /\ IdleHub /\ IdleParser /\ IdleImport
    /\ IdleResolver /\ IdleSync /\ IdleKnown

SpecFail == StartFail /\ [][NextFail]_vars

\* The global filter under imports that overlap, saved definitions and a
\* reload of the page.
StartKnown ==
    InitKnown /\ IdleBloom /\ IdleParser /\ IdleImport /\ IdleResolver
    /\ IdleSync /\ IdleFail

SpecKnown == StartKnown /\ [][NextKnown]_vars

\* The resolver saving AI definitions while sources are switched off and on.
StartPersist ==
    InitPersist /\ IdleBloom /\ IdleParser /\ IdleImport /\ IdleSync
    /\ IdleFail /\ IdleKnown

SpecPersist == StartPersist /\ [][NextPersist]_vars

\* An import from createDictionary on, with write failures and a crash.
StartImport == InitImport /\ IdleBloom /\ IdleResolver /\ IdleSync
    /\ IdleFail /\ IdleKnown

SpecImport == StartImport /\ [][NextImport]_vars

\* The resolver under calls that may overlap each other and the renders.
StartResolver ==
    InitResolver /\ IdleBloom /\ IdleParser /\ IdleImport /\ IdleSync
    /\ IdleFail /\ IdleKnown

SpecResolver == StartResolver /\ [][NextResolver]_vars

----------------------------------------------------------------------------
(* C1: once add(w) was called on a filter, test(w) on that filter is true  *)
(* in every later state, whatever adds and merges follow.                  *)
C1_NoFalseNegative ==
    \A id \in FilterIds : \A w \in addedTo[id] : BloomTest(filters[id], w)

\* A word was added and a merge into the same filter (which brought bits
\* of another filter) followed.
C1_Witness ==
    \E id \in FilterIds :
        /\ addedTo[id] # {}
        /\ \E other \in FilterIds \ {id} :
              /\ addedTo[other] # {}
              /\ filters[other].bits # {}
              /\ filters[other].bits \subseteq filters[id].bits
              /\ filters[other].bits # filters[id].bits

----------------------------------------------------------------------------
(* C11: for filters of equal size, merge is commutative and associative on *)
(* the bit array: merging g into f gives the bits of merging f into g, and *)
(* (f merged with g) merged with h gives the bits of f merged with         *)
(* (g merged with h).                                                      *)
C11_MergeCommutativeAssociative ==
    \A a \in FilterIds : \A b \in FilterIds : \A c \in FilterIds :
        LET f == filters[a]
            g == filters[b]
            h == filters[c]
        IN  /\ f.size = g.size =>
                  BloomMerge(f, g).bits = BloomMerge(g, f).bits
            /\ (f.size = g.size /\ g.size = h.size) =>
                  BloomMerge(BloomMerge(f, g), h).bits
                      = BloomMerge(f, BloomMerge(g, h)).bits

\* Three filters of one size hold three different non-empty bit sets.
C11_Witness ==
    /\ filters["A"].size = filters["B"].size
    /\ filters["B"].size = filters["C"].size
    /\ filters["A"].bits # {}
    /\ filters["B"].bits # {}
    /\ filters["C"].bits # {}
    /\ filters["A"].bits # filters["B"].bits
    /\ filters["B"].bits # filters["C"].bits
    /\ filters["A"].bits # filters["C"].bits

(* C12: merge(other) with other.size different from this.size leaves every *)
(* bit (and the size) of the target filter as it was; the call completes   *)
(* like any other merge.                                                   *)
C12_MergeSizeMismatchIsNoOp ==
    [][\A id \in FilterIds : \A other \in FilterIds \ {id} :
          (filters[other].size # filters[id].size /\ Merge(id, other))
              => (filters'[id] = filters[id] /\ bloomOps' = bloomOps + 1)]_vars

\* The last call merged a filter of another size, holding bits the target
\* lacks, into a filter.
C12_Witness ==
    /\ lastOp[1] = "merge"
    /\ filters[lastOp[2]].size # filters[lastOp[3]].size
    /\ filters[lastOp[3]].bits # {}
    /\ ~(filters[lastOp[3]].bits \subseteq filters[lastOp[2]].bits)

(* C13: the worker's filter and the main thread's filter compute the same  *)
(* three bit positions for every string and size, so the filter rebuilt on *)
(* the main thread from the worker's (size, buffer), and a filter it was   *)
(* merged into, test true for every word the worker added.                 *)
C13_WorkerAndMainAgree ==
    /\ \A w \in BloomWords : \A size \in {BloomSize, OtherBloomSize} :
          SimpleProbes(w, size) = Probes(w, size)
    /\ \A w \in addedTo[WorkerFilter] : BloomTest(Rebuilt, w)
    /\ lastOp[1] = "mergeRebuilt" =>
          \A w \in addedTo[WorkerFilter] : BloomTest(filters[lastOp[2]], w)

\* The worker added two words and its rebuilt filter was merged into the
\* global one.
C13_Witness ==
    /\ lastOp[1] = "mergeRebuilt"
    /\ Cardinality(addedTo[WorkerFilter]) >= 2
    /\ Rebuilt.bits # {}
    /\ Rebuilt.bits \subseteq filters["A"].bits

----------------------------------------------------------------------------
(* Claims about the hub                                                    *)

\* The words looked up: 'A' (normalised to 'a'), 'b' and the Hanja.
QueryWords == { <<65>>, <<98>>, H1 }

\* The enabled sources of a language that hold the normalised word.
HoldingSources(language, word) ==
    { id \in DOMAIN dict_meta :
        /\ dict_meta[id].language = language
        /\ dict_meta[id].enabled
        /\ <<id, Trim(ToLowerCase(word))>> \in DOMAIN dict_entries }

(* C2: lookupCascade returns its results in ascending source.priority, so  *)
(* the first element of a non-empty result has the smallest priority among *)
(* the enabled sources holding the word, all of which are in the result.   *)
C2_CascadeSortedByPriority ==
    \A language \in Languages : \A word \in QueryWords :
        LET r == lookupCascade(language, word)
        IN  /\ \A i \in 1..(Len(r) - 1) :
                  r[i].source.priority <= r[i + 1].source.priority
            /\ \A id \in HoldingSources(language, word) :
                  /\ \E i \in 1..Len(r) : r[i].source.id = id
                  /\ r[1].source.priority <= dict_meta[id].priority

\* Three enabled sources of priorities 0, 1, 2 hold the word, and the one
\* of priority 0 is not the first in key order.
C2_Witness ==
    \E language \in Languages : \E word \in QueryWords :
        LET r == lookupCascade(language, word)
        IN  /\ Len(r) = 3
            /\ \A i \in 1..3 : r[i].source.priority = i - 1
            /\ \A i \in 1..3 : r[i].source.id \in HoldingSources(language, word)
            /\ r[1].source.id > r[2].source.id

(* C3: every element of lookupCascade(language, word) has a source that is *)
(* stored, enabled and of the queried language; a disabled source or one   *)
(* of another language never appears, the legacy splice included.          *)
C3_CascadeOnlyEnabledSources ==
    \A language \in Languages : \A word \in QueryWords :
        LET r == lookupCascade(language, word)
        IN  \A i \in 1..Len(r) :
                /\ r[i].source.id \in DOMAIN dict_meta
                /\ dict_meta[r[i].source.id].enabled
                /\ dict_meta[r[i].source.id].language = language
                /\ r[i].source.enabled
                /\ r[i].source.language = language
                /\ r[i].entry.dictId = r[i].source.id

\* A disabled source of the language and a source of another language both
\* hold the word, and the cascade for the word is not empty.
C3_Witness ==
    \E language \in Languages : \E word \in QueryWords :
        LET clean == Trim(ToLowerCase(word))
        IN  /\ lookupCascade(language, word) # <<>>
            /\ \E id \in DOMAIN dict_meta :
                  /\ dict_meta[id].language = language
                  /\ ~ dict_meta[id].enabled
                  /\ <<id, clean>> \in DOMAIN dict_entries
            /\ \E id \in DOMAIN dict_meta :
                  /\ dict_meta[id].language # language
                  /\ dict_meta[id].enabled
                  /\ <<id, clean>> \in DOMAIN dict_entries

\* The entries of a batch that have a word.
WithWord(entries) == SelectSeq(entries, LAMBDA e : e.word # <<>>)

(* C4: importBatchToDict with N entries of which M lack a word raises the  *)
(* count of the target source by exactly N - M and stores exactly the      *)
(* N - M entries that have a word.                                         *)
C4_CountsOnlyEntriesWithWord ==
    [][ \A dictId \in importing : \A entries \in Batches :
          (ImportBatchToDict(entries, dictId) /\ dictId \in DOMAIN dict_meta) =>
             /\ dict_meta'[dictId].count =
                   dict_meta[dictId].count + Len(WithWord(entries))
             /\ DOMAIN dict_entries' =
                   DOMAIN dict_entries \cup
                   { <<dictId, Trim(ToLowerCase(WithWord(entries)[i].word))>> :
                       i \in 1..Len(WithWord(entries)) } ]_vars

\* The priorities of the stored sources of a language are 0..n-1, each once.
DensePriorities(meta, language) ==
    LET ids == { id \in DOMAIN meta : meta[id].language = language }
    IN  /\ { meta[id].priority : id \in ids } = 0..(Cardinality(ids) - 1)
        /\ \A a, b \in ids : meta[a].priority = meta[b].priority => a = b

(* C5: after any reorder the priorities of all n stored sources of the     *)
(* language are exactly 0..n-1, each used once, and the moved source has   *)
(* swapped places with its neighbour; the first moved up or the last moved *)
(* down changes nothing.                                                   *)
C5_ReorderRenumbersDensely ==
    [][ \A i \in 1..Len(dictionaries) : \A direction \in {"up", "down"} :
          MovePriority(i, direction) =>
             LET target == IF direction = "up" THEN i - 1 ELSE i + 1
             IN  /\ DensePriorities(dict_meta', selectedTab)
                 /\ dict_meta'[dictionaries[i].id].priority = target - 1
                 /\ dict_meta'[dictionaries[target].id].priority = i - 1 ]_vars

(* C14: after initialisation and after any sequence of hub operations each *)
(* language has exactly one source of type USER: none is created in        *)
(* addition and the USER source is never deleted.                          *)
UserSources(language) ==
    { id \in DOMAIN dict_meta :
        dict_meta[id].type = "USER" /\ dict_meta[id].language = language }

C14_ExactlyOneUserSource ==
    \A language \in Languages : UserSources(language) = {UserId(language)}

\* A source was created and deleted again, another one exists, and the
\* USER source of a language holds an entry.
C14_Witness ==
    /\ nextId >= 3
    /\ Cardinality(DOMAIN dict_meta) = Cardinality(Languages) + 1
    /\ \E language \in Languages :
          KeysOfDict(dict_entries, UserId(language)) # {}

(* C15: in every reachable state the priorities of the sources of one      *)
(* language are pairwise distinct, after create, reorder and delete, two   *)
(* createDictionary calls for one language that overlap included.          *)
C15_PrioritiesDistinct ==
    \A a \in DOMAIN dict_meta : \A b \in DOMAIN dict_meta :
        (a # b /\ dict_meta[a].language = dict_meta[b].language)
            => dict_meta[a].priority # dict_meta[b].priority

\* The ids createDictionary issued whose source is gone.
DeletedIds == { id \in 1..(nextId - 1) : id \notin DOMAIN dict_meta }

\* No cascade lookup returns a deleted source.
NeverReturned ==
    \A language \in Languages : \A word \in QueryWords :
        LET results == lookupCascade(language, word)
        IN  \A r \in 1..Len(results) : results[r].source.id \notin DeletedIds

\* What one deleteDictionary step on the listed source i does.
DeleteEffect(i) ==
    LET id == dictionaries[i].id
    IN  /\ id \notin DOMAIN dict_meta'
        /\ KeysOfDict(dict_entries', id) = {}
        /\ DOMAIN dict_meta' = DOMAIN dict_meta \ {id}
        /\ \A other \in DOMAIN dict_meta' : dict_meta'[other] = dict_meta[other]
        /\ DOMAIN dict_entries' = DOMAIN dict_entries \ KeysOfDict(dict_entries, id)
        /\ \A k \in DOMAIN dict_entries' : dict_entries'[k] = dict_entries[k]

(* C16: deleteDictionary(id) removes the metadata record of the source and *)
(* every entry with dictId = id in one step; afterwards neither exists, no *)
(* cascade lookup returns that source, and the metadata and entries of     *)
(* every other source are as they were.                                    *)
C16_DeleteRemovesSourceOnly ==
    /\ [][\A i \in 1..Len(dictionaries) :
              DeleteDictionary(i) => DeleteEffect(i)]_vars
    /\ []NeverReturned

\* A source is gone while another created source and the USER source
\* still hold entries that a lookup returns.
C16_Witness ==
    /\ DeletedIds # {}
    /\ \E k \in DOMAIN dict_entries :
          k[1] \in DOMAIN dict_meta /\ dict_meta[k[1]].type = "IMPORTED"
    /\ \E k \in DOMAIN dict_entries :
          k[1] \in DOMAIN dict_meta /\ dict_meta[k[1]].type = "USER"

\* The upper-case letter of a lower-case ASCII or Latin-1 letter.
UpperChar(c) ==
    IF c \in 97..122 THEN c - 32
    ELSE IF c \in 224..254 /\ c # 247 THEN c - 32
    ELSE c

UpperCased(w) == [i \in 1..Len(w) |-> UpperChar(w[i])]

\* The words looked up in their canonical spelling: 'a', 'b', the Hanja.
BaseWords == { <<97>>, <<98>>, H1 }

\* Spellings of a word that differ from it in letter case and in leading
\* and trailing whitespace only (space, TAB, NBSP, LF).
Variants(w) ==
    { w, UpperCased(w), <<32>> \o UpperCased(w), w \o <<9, 32>>,
      <<160>> \o UpperCased(w) \o <<10>> }

\* The source createDictionary made last.
Newest == nextId - 1

\* The place of a source in a result, 0 if it is not in it.
PlaceOf(results, id) ==
    IF \E r \in 1..Len(results) : results[r].source.id = id
    THEN CHOOSE r \in 1..Len(results) : results[r].source.id = id
    ELSE 0

\* Every spelling variant of a word gets the result of the word itself.
VariantsAgree ==
    \A language \in Languages : \A w \in BaseWords : \A v \in Variants(w) :
        lookupCascade(language, v) = lookupCascade(language, w)

(* C17 as stated: variants get the same result, and an entry imported into *)
(* a new enabled source is the first element of the result, with its       *)
(* translation, for every variant of its word.                             *)
C17_NewSourceAlwaysFirst ==
    /\ VariantsAgree
    /\ \A w \in BaseWords :
          (/\ Newest \in DOMAIN dict_meta
           /\ dict_meta[Newest].enabled
           /\ <<Newest, w>> \in DOMAIN dict_entries)
          => \A v \in Variants(w) :
                LET results == lookupCascade(dict_meta[Newest].language, v)
                IN  /\ results # <<>>
                    /\ results[1].source.id = Newest
                    /\ results[1].entry.translation
                           = dict_entries[<<Newest, w>>].translation

(* C17: in one store state lookupCascade returns the same result for two   *)
(* words that differ only in letter case and leading/trailing whitespace;  *)
(* an entry imported into a new enabled source is in the result of every   *)
(* variant of its word with its translation, and it is the first element   *)
(* when no other enabled source of the language holds the word and the     *)
(* legacy store has no row for it.                                         *)
C17_CaseAndSpaceInsensitive ==
    /\ VariantsAgree
    /\ \A w \in BaseWords :
          (/\ Newest \in DOMAIN dict_meta
           /\ dict_meta[Newest].enabled
           /\ <<Newest, w>> \in DOMAIN dict_entries)
          => \A v \in Variants(w) :
                LET language == dict_meta[Newest].language
                    results == lookupCascade(language, v)
                    place == PlaceOf(results, Newest)
                IN  /\ place > 0
                    /\ results[place].entry.translation
                           = dict_entries[<<Newest, w>>].translation
                    /\ (/\ HoldingSources(language, w) = {Newest}
                        /\ LookupLegacy(language, w) = <<>>)
                       => place = 1

\* The newest source is enabled and holds 'a', and so does the USER source
\* of its language, which comes first.
C17_Witness ==
    /\ Newest \in DOMAIN dict_meta
    /\ dict_meta[Newest].enabled
    /\ <<Newest, <<97>>>> \in DOMAIN dict_entries
    /\ <<UserId(dict_meta[Newest].language), <<97>>>> \in DOMAIN dict_entries
    /\ Len(lookupCascade(dict_meta[Newest].language, <<32, 65>>)) = 2

\* A step leaves the sources in place, each with its count, language and
\* type.
MetaFrame ==
    /\ DOMAIN dict_meta' = DOMAIN dict_meta
    /\ \A id \in DOMAIN dict_meta :
          /\ dict_meta'[id].count = dict_meta[id].count
          /\ dict_meta'[id].language = dict_meta[id].language
          /\ dict_meta'[id].type = dict_meta[id].type

(* C28: toggleDictionary, disableAll and movePriority change nothing but   *)
(* the enabled flag or the priority of a source: every source keeps its    *)
(* count, language and type, also when the batches of a running import are *)
(* written between these operations.                                       *)
C28_SwitchAndReorderKeepCounts ==
    [][(ToggleDictionaryStep \/ MovePriorityStep \/ DisableAllStep)
          => MetaFrame]_vars

(* C29: every entry of dict_entries has the dictId of a source that is in  *)
(* dict_meta, also when a source is deleted while an import is writing     *)
(* batches into it.                                                        *)
C29_EveryEntryHasItsSource ==
    \A k \in DOMAIN dict_entries : k[1] \in DOMAIN dict_meta

(* C30: the count of each source is the number of entries dict_entries     *)
(* holds with its dictId, after any imports (batches that repeat a word    *)
(* included), saved definitions and clears.                                *)
C30_CountIsNumberOfEntries ==
    \A id \in DOMAIN dict_meta :
        dict_meta[id].count = Cardinality(KeysOfDict(dict_entries, id))

----------------------------------------------------------------------------
(* Claims about the parser                                                 *)

(* C6: for any text and any cutting of it into consecutive chunks, cuts    *)
(* inside a line or between CR and LF included, the entries posted over    *)
(* all batches once the input has ended are those posted when the whole    *)
(* text is one chunk: the leftover carries the partial last line over and  *)
(* the final leftover is parsed as a line.                                 *)
C6_ChunkBoundaryInvariance ==
    parserDone => Flatten(posted) = OneShot(input)

\* A text of two entries was cut both inside a line and between CR and LF.
C6_Witness ==
    /\ parserDone
    /\ cutInCRLF
    /\ cutInLine
    /\ Len(Flatten(posted)) >= 2

----------------------------------------------------------------------------
(* Claims about the import pipeline                                        *)

\* The batches the worker has posted whose write has neither completed nor
\* failed.
Unwritten == { i \in 1..Len(posted) : i \notin committed \cup failed }

(* C9: the write of each posted batch is awaited before the next chunk is  *)
(* taken, so at most one posted batch has its write still outstanding.     *)
C9_AtMostOneUnwrittenBatch ==
    ~ crashed => Cardinality(Unwritten) <= 1

\* The entries of batch i that the target source holds as the batch put
\* them.
StoredOf(i) ==
    { k \in 1..Len(posted[i]) :
        \E dictId \in importing :
            /\ <<dictId, Trim(ToLowerCase(posted[i][k].word))>>
                  \in DOMAIN dict_entries
            /\ dict_entries[<<dictId, Trim(ToLowerCase(posted[i][k].word))>>]
                  = StoredEntry(posted[i][k], dictId) }

(* C10: in every state, a failure or a crash included, each posted batch   *)
(* is wholly stored with its count update or wholly absent, and the stored *)
(* batches are a prefix of the batches posted.                             *)
C10_AtomicBatchesFormPrefix ==
    /\ \A i \in 1..Len(posted) :
          IF i \in committed
          THEN StoredOf(i) = 1..Len(posted[i])
          ELSE StoredOf(i) = {}
    /\ \A dictId \in importing :
          dict_meta[dictId].count =
             Len(Flatten([k \in 1..Len(posted) |->
                             IF k \in committed THEN posted[k] ELSE <<>>]))
    /\ \A i \in committed : \A j \in 1..i : j \in committed

(* C27: when the import reports completion, the write of every batch the   *)
(* parser posted has been committed, and none has failed: a failed write   *)
(* makes the import report failure.                                        *)
C27_CompletionAfterAllWrites ==
    completed = "resolved" =>
        /\ committed = 1..Len(posted)
        /\ failed = {}

----------------------------------------------------------------------------
(* Claims about the resolver                                               *)

C8_NoDuplicateVocabulary ==
    \A i, j \in 1..Len(vocabulary) :
        (/\ i # j
         /\ vocabulary[i].language = vocabulary[j].language
         /\ ToLowerCase(vocabulary[i].word) = ToLowerCase(vocabulary[j].word))
        => FALSE

----------------------------------------------------------------------------
(* Claims about the download                                               *)

C19_PercentWithinBounds ==
    /\ \A i \in 1..Len(reports) : reports[i][2] \in 0..100
    /\ \A fileSize \in 1..MaxFileSize : \A off \in ChunkOffsets(fileSize) :
          FileProgress(off, fileSize) \in 0..100

----------------------------------------------------------------------------
----------------------------------------------------------------------------
(* Claims about the messages of the parser                                 *)

\* The lines of the whole text that give an entry.
WellFormedLines(bytes) ==
    LET lines == SplitLines(DecodeFrom(DecoderReset, bytes, <<>>)[2])
    IN  Cardinality({ k \in 1..Len(lines) : ParseLine(lines[k]) # <<>> })

\* The 'done' message is posted: its total and the batches before it.
DoneCarriesTotal ==
    /\ processedCount = Len(Flatten(posted))
    /\ processedCount = WellFormedLines(input)
    /\ currentBatch # <<>> =>
          /\ posted # <<>>
          /\ posted[Len(posted)] = currentBatch

(* C21: in file mode and in stream mode the parser posts 'done' once, and  *)
(* no 'batch' after it; the total of 'done' is the sum of the sizes of the *)
(* batches posted, which is the number of well-formed lines of the input   *)
(* (a malformed line adds nothing and stops nothing); every batch has      *)
(* between 1 and BATCH_SIZE entries, and a partial last batch is posted    *)
(* before 'done'.                                                          *)
C21_OneDoneAfterAllBatches ==
    /\ [](\A i \in 1..Len(posted) : Len(posted[i]) \in 1..BATCH_SIZE)
    /\ [](parserDone => DoneCarriesTotal)
    /\ [][parserDone => (parserDone' /\ posted' = posted)]_vars

\* A text with a malformed line, cut inside a line, ended with a full
\* batch and a partial batch posted.
C21_Witness ==
    /\ parserDone
    /\ cutInLine
    /\ Len(posted) >= 2
    /\ Len(posted[1]) = BATCH_SIZE
    /\ Len(posted[Len(posted)]) < BATCH_SIZE
    /\ WellFormedLines(input) < MaxBatchLines

----------------------------------------------------------------------------
(* Claims about failing store requests                                     *)

(* C22: when a store request fails inside getDictionaries,                 *)
(* importBatchToDict, deleteDictionary, clearDictionaryEntries,            *)
(* lookupCascade or lookupLegacy, the promise of the operation rejects: it *)
(* neither resolves with a value nor stays pending.                        *)
C22_FailedRequestRejects ==
    \A i \in 1..Len(settlements) : settlements[i].outcome = "rejected"

----------------------------------------------------------------------------
(* Claims about the global filter                                          *)

\* The imports whose filter was merged since the page was loaded.
MergedImports == { i \in ImportIds : importPhase[i].phase = "merged" }

\* The words the filter is queried with.
TestWords == { ToLowerCase(w) : w \in LineWords }

\* A merge keeps every word that tested true.
MergeKeepsTrue ==
    \A w \in TestWords :
        BloomTest(globalBloomFilter, w) => BloomTest(globalBloomFilter', w)

(* C23: once an import has ended well, the global filter tests true for    *)
(* the lower-cased form of every word that import parsed; the merge of an  *)
(* import keeps every word that tested true before it; and after two       *)
(* imports that overlapped the global filter holds the bits of both        *)
(* workers, whichever ended first.                                         *)
C23_ImportMergesIntoGlobal ==
    /\ [](\A i \in MergedImports : \A w \in parsedWords[i] :
             BloomTest(globalBloomFilter, ToLowerCase(w)))
    /\ [](MergedImports = ImportIds =>
             globalBloomFilter.bits =
                 UNION { workerBloom[i].bits : i \in ImportIds })
    /\ [][(\E i \in ImportIds : FinishParse(i)) => MergeKeepsTrue]_vars

\* Two imports that parsed different words have both been merged.
C23_Witness ==
    /\ MergedImports = ImportIds
    /\ parsedWords[1] # {}
    /\ parsedWords[2] # {}
    /\ parsedWords[1] # parsedWords[2]
    /\ workerBloom[1].bits # workerBloom[2].bits

(* C24: the global filter tests true for the word of every entry stored in *)
(* dict_entries, whether an import or saveDefinition wrote it, before or   *)
(* after a reload of the page: a false test means the word is in no entry. *)
C24_NoStoredWordTestsFalse ==
    \A k \in DOMAIN dict_entries :
        BloomTest(globalBloomFilter, dict_entries[k].word)

----------------------------------------------------------------------------
(* Claims about saved definitions                                          *)

\* The calls whose AI answer was saved with saveDefinition.
SavedCalls ==
    { c \in 1..Len(calls) :
        /\ calls[c].ai = "answered"
        /\ calls[c].definition # <<>>
        /\ ~ IncludesFailure(calls[c].definition) }

\* lookupCascade(language, word of call c) has a result of the USER source
\* with the translation saved for c.
FoundInUserSource(c) ==
    LET results == lookupCascade(appLanguage, calls[c].cleanWord)
    IN  \E i \in 1..Len(results) :
            /\ results[i].source.type = "USER"
            /\ results[i].source.language = appLanguage
            /\ results[i].entry.translation = calls[c].definition

UserSourceEnabled == dict_meta[UserId(appLanguage)].enabled

\* The exact lookup of call d, for a word saved before in any letter case,
\* ends the call with the saved translation and without the AI.
StopsAtHub(d) ==
    \A c \in SavedCalls :
        (/\ c # d
         /\ ToLowerCase(calls[c].cleanWord) = ToLowerCase(calls[d].cleanWord)
         /\ UserSourceEnabled)
        => /\ calls'[d].pc = "done"
           /\ calls'[d].ai = "none"
           /\ calls'[d].definition = calls[c].definition

(* C25 as stated: once the AI's translation t of w was saved, every later  *)
(* lookupCascade(L, w) has a result of L's USER source with translation t. *)
C25_SavedDefinitionAlwaysFound ==
    \A c \in SavedCalls : FoundInUserSource(c)

(* C25: once the AI's translation t of w was saved, lookupCascade(L, w)    *)
(* has a result of L's USER source with translation t in every later state *)
(* in which that source is enabled, and a resolution of w that reaches the *)
(* hub in such a state ends there with t, without a call of the AI.        *)
C25_SavedDefinitionFoundWhileEnabled ==
    /\ [](\A c \in SavedCalls : UserSourceEnabled => FoundInUserSource(c))
    /\ [][\A d \in 1..Len(calls) : ExactLookup(d) => StopsAtHub(d)]_vars

\* A second call for the saved word, in another letter case, has ended at
\* the hub with the saved translation.
C25_Witness ==
    \E c \in SavedCalls : \E d \in 1..Len(calls) :
        /\ c # d
        /\ ToLowerCase(calls[c].cleanWord) = ToLowerCase(calls[d].cleanWord)
        /\ calls[c].cleanWord # calls[d].cleanWord
        /\ calls[d].pc = "done"
        /\ calls[d].ai = "none"
        /\ calls[d].log = << HubEvent(calls[d].cleanWord, <<1>>) >>
        /\ calls[d].definition = calls[c].definition
        /\ UserSourceEnabled
        /\ FoundInUserSource(c)

----------------------------------------------------------------------------
(* Claims about the legacy splice                                          *)

\* The results of a cascade that come from the legacy store: they alone
\* carry no `original`.
LegacyResults(results) ==
    { i \in 1..Len(results) : results[i].entry.original = <<>> }

\* The results of a cascade that are hub entries of the USER source.
UserHubResults(results) ==
    { i \in 1..Len(results) :
        /\ results[i].source.type = "USER"
        /\ results[i].entry.original # <<>> }

\* The legacy results of a cascade carry the translation of the legacy row
\* and the USER source of the language.
SplicedUnderUser(language, clean, results) ==
    \A i \in LegacyResults(results) :
        /\ results[i].entry.translation = legacy[<<language, clean>>].translation
        /\ results[i].entry.dictId = UserId(language)
        /\ results[i].source = dict_meta[UserId(language)]

(* C26 as stated: with a legacy row for the word, one legacy result is     *)
(* added exactly when the hub results have none of the USER source.        *)
C26_LegacyAddedIffNoUserResult ==
    \A language \in Languages : \A word \in QueryWords :
        LET clean == Trim(ToLowerCase(word))
            results == lookupCascade(language, word)
        IN  <<language, clean>> \in DOMAIN legacy =>
                /\ SplicedUnderUser(language, clean, results)
                /\ Cardinality(LegacyResults(results)) =
                      IF UserHubResults(results) = {} THEN 1 ELSE 0

(* C26: with a legacy row for the normalized word and the USER source of   *)
(* the language enabled, lookupCascade adds exactly one result with the    *)
(* legacy translation under the USER source if and only if the hub results *)
(* have none of the USER source; with a hub entry of the USER source, or   *)
(* with the USER source disabled, no legacy result is added.               *)
C26_LegacySplicedUnderEnabledUser ==
    \A language \in Languages : \A word \in QueryWords :
        LET clean == Trim(ToLowerCase(word))
            results == lookupCascade(language, word)
        IN  <<language, clean>> \in DOMAIN legacy =>
                /\ SplicedUnderUser(language, clean, results)
                /\ Cardinality(LegacyResults(results)) =
                      IF /\ dict_meta[UserId(language)].enabled
                         /\ UserHubResults(results) = {}
                      THEN 1 ELSE 0

\* The legacy row is spliced in for one language, and for another the hub
\* entry of the USER source stands in its place.
C26_Witness ==
    \E l1 \in Languages : \E l2 \in Languages \ {l1} : \E word \in QueryWords :
        LET clean == Trim(ToLowerCase(word))
        IN  /\ <<l1, clean>> \in DOMAIN legacy
            /\ <<l2, clean>> \in DOMAIN legacy
            /\ Cardinality(LegacyResults(lookupCascade(l1, word))) = 1
            /\ Len(lookupCascade(l1, word)) > 1
            /\ LegacyResults(lookupCascade(l2, word)) = {}
            /\ UserHubResults(lookupCascade(l2, word)) # {}

====
